---- MODULE Spec2Model ----
(***************************************************************************)
(* Automated-trading control core of TradingAgentsNew: the simulated       *)
(* brokerage ledger (SimulatedBroker) and the risk engine (RiskManager).   *)
(*                                                                         *)
(* Money is counted in mills (1/1000 of a currency unit), so that the      *)
(* default slippage (0.001) and per-share commission (0.003) are exact on  *)
(* prices given in whole units.  average_price and the P&L fields are      *)
(* exact rationals [n, d] (n/d mills).  A Python dict is a function whose  *)
(* DOMAIN is the set of keys; the orders dict, whose keys are fresh uuids  *)
(* and which iterates in insertion order, is a sequence indexed by id.     *)
(* None in an optional numeric field is the value NoPrice.                 *)
(***************************************************************************)
EXTENDS Integers, Sequences, FiniteSets, TLC

VARIABLES broker, initial_cash, config, last, pre, prev, trader, market_monitor, trading_scheduler, threads, event, automated_trader

ledgerVars == <<broker, initial_cash, config, last, pre, prev>>
traderVars == <<trader, market_monitor, trading_scheduler, threads, event, automated_trader>>
vars == <<ledgerVars, traderVars>>

(***************************************************************************)
(* Program constants.                                                      *)
(***************************************************************************)
Mills == 1000
\* SimulatedBroker.__init__ defaults; AutomatedTrader passes initial_cash only
SlippagePermille == 1
CommissionPerShare == 3
MinCommission == 5000
\* _check_cash_availability: order_cost = quantity * price * 1.003
CashBufferPermille == 1003
Percent == 100
\* check_daily_loss_limit: initial_value = 100000.0, in whole units
InitialValue == 100000
\* MarketMonitor.__init__ defaults and the literals of its detectors
PriceChangeThreshold == 3
VolumeSpikeThreshold == 2
GapThreshold == 2
HistoryCap == 100
DefaultVolumeBaseline == 100000

NoPrice == -1

(***************************************************************************)
(* Bounds and input sets.                                                  *)
(***************************************************************************)
MaxOrderId == 2
MaxQuantity == 10

Symbols == {"AAPL", "MSFT"}
\* prices in whole units, as the callers supply them
Prices == {10, 20}
Quantities == {1, MaxQuantity}
InitialCashes == {0, 100 * Mills}

OrderSideValues == {"buy", "sell"}
OrderTypeValues == {"market", "limit", "stop", "stop_limit"}
TerminalStatuses == {"filled", "cancelled", "rejected"}

(***************************************************************************)
(* Rationals n/d with d > 0.                                               *)
(***************************************************************************)
\* the fraction n/d, kept as the pair of its numerator and denominator
Rat(n, d) == [n |-> n, d |-> d]
RatInt(i) == [n |-> i, d |-> 1]
RatAdd(x, y) == Rat(x.n * y.d + y.n * x.d, x.d * y.d)
RatSub(x, y) == Rat(x.n * y.d - y.n * x.d, x.d * y.d)
RatMulInt(x, i) == Rat(x.n * i, x.d)
RatDivInt(x, i) == Rat(x.n, x.d * i)
RatEq(x, y) == x.n * y.d = y.n * x.d
RatLeq(x, y) == x.n * y.d <= y.n * x.d

Max(a, b) == IF a >= b THEN a ELSE b
Abs(a) == IF a >= 0 THEN a ELSE -a

(***************************************************************************)
(* Enum and dataclass construction.                                        *)
(***************************************************************************)
\* str.upper() on the strings the callers pass
Upper(s) ==
  CASE s = "buy" -> "BUY"
    [] s = "sell" -> "SELL"
    [] s = "market" -> "MARKET"
    [] s = "limit" -> "LIMIT"
    [] s = "stop" -> "STOP"
    [] s = "stop_limit" -> "STOP_LIMIT"
    [] OTHER -> s

\* Enum(value): lookup by value; a value that no member has raises ValueError
EnumLookup(values, v) == IF v \in values THEN v ELSE "ValueError"
OrderSide(v) == EnumLookup(OrderSideValues, v)
OrderType(v) == EnumLookup(OrderTypeValues, v)

\* Order(...) as place_order builds it: status, filled_quantity and
\* filled_price take the dataclass defaults
Order(symbol, side, order_type, quantity, price, stop_price) ==
  [symbol |-> symbol, side |-> side, order_type |-> order_type,
   quantity |-> quantity, price |-> price, stop_price |-> stop_price,
   status |-> "pending", filled_quantity |-> 0, filled_price |-> NoPrice]

\* fields of the Position dataclass that have no default
PositionRequired ==
  {"symbol", "quantity", "average_price", "current_price", "market_value",
   "unrealized_pnl"}
\* keyword arguments _execute_buy_order passes to Position(...)
PositionSupplied ==
  {"symbol", "quantity", "average_price", "current_price", "market_value"}
\* a dataclass __init__ raises TypeError when a required argument is missing
PositionInitRaises == PositionRequired \ PositionSupplied # {}

(***************************************************************************)
(* SimulatedBroker.  A broker value b is the record                        *)
(*   [cash, total_value, positions, orders, price_data].                   *)
(***************************************************************************)
NewBroker(cash) ==
  [cash |-> cash, total_value |-> cash, positions |-> <<>>, orders |-> <<>>,
   price_data |-> <<>>]

DictSet(d, k, v) == [x \in DOMAIN d \cup {k} |-> IF x = k THEN v ELSE d[x]]
DictDel(d, k) == [x \in DOMAIN d \ {k} |-> d[x]]

_get_current_price(b, symbol) ==
  IF symbol \in DOMAIN b.price_data THEN b.price_data[symbol] ELSE NoPrice

\* returns [b, raised]; the cash is debited before the position is touched
_execute_buy_order(b, order, price, commission) ==
  LET order_cost == order.quantity * price + commission
      b1 == [b EXCEPT !.cash = @ - order_cost]
  IN IF order.symbol \in DOMAIN b1.positions
     THEN LET position == b1.positions[order.symbol]
              total_quantity == position.quantity + order.quantity
              total_cost ==
                RatAdd(RatMulInt(position.average_price, position.quantity),
                       RatInt(order.quantity * price))
          IN [b |-> [b1 EXCEPT !.positions[order.symbol] =
                       [@ EXCEPT !.average_price =
                                   RatDivInt(total_cost, total_quantity),
                                 !.quantity = total_quantity]],
              raised |-> "none"]
     ELSE IF PositionInitRaises
          THEN [b |-> b1, raised |-> "TypeError"]
          ELSE [b |-> [b1 EXCEPT !.positions =
                         DictSet(@, order.symbol,
                                 [quantity |-> order.quantity,
                                  average_price |-> RatInt(price),
                                  current_price |-> price,
                                  market_value |-> order.quantity * price,
                                  unrealized_pnl |-> RatInt(0),
                                  realized_pnl |-> RatInt(0)])],
                raised |-> "none"]

_execute_sell_order(b, order, price, commission) ==
  LET sell_proceeds == order.quantity * price - commission
      b1 == [b EXCEPT !.cash = @ + sell_proceeds]
  IN IF order.symbol \in DOMAIN b1.positions
     THEN LET position == b1.positions[order.symbol]
              realized_pnl ==
                RatSub(RatMulInt(RatSub(RatInt(price), position.average_price),
                                 order.quantity),
                       RatInt(commission))
              position1 ==
                [position EXCEPT !.realized_pnl = RatAdd(@, realized_pnl),
                                 !.quantity = @ - order.quantity]
          IN [b |-> IF position1.quantity = 0
                    THEN [b1 EXCEPT !.positions = DictDel(@, order.symbol)]
                    ELSE [b1 EXCEPT !.positions[order.symbol] = position1],
              raised |-> "none"]
     ELSE [b |-> b1, raised |-> "none"]

\* the order is b.orders[id]; returns the broker after the call
_execute_market_order(b, id) ==
  LET order == b.orders[id]
      current_price == _get_current_price(b, order.symbol)
      executed_price ==
        IF order.side = "buy"
        THEN (current_price * (Mills + SlippagePermille)) \div Mills
        ELSE (current_price * (Mills - SlippagePermille)) \div Mills
      commission == Max(Abs(order.quantity) * CommissionPerShare, MinCommission)
      order_value == order.quantity * executed_price + commission
      rejected == [b EXCEPT !.orders[id].status = "rejected"]
  IN IF current_price = NoPrice THEN rejected
     ELSE IF order.side = "buy" /\ b.cash < order_value THEN rejected
     ELSE IF order.side = "sell"
             /\ (order.symbol \notin DOMAIN b.positions
                 \/ b.positions[order.symbol].quantity < order.quantity)
          THEN rejected
     ELSE LET r == IF order.side = "buy"
                   THEN _execute_buy_order(b, order, executed_price, commission)
                   ELSE _execute_sell_order(b, order, executed_price, commission)
          IN IF r.raised = "none"
             THEN [r.b EXCEPT !.orders[id].status = "filled",
                              !.orders[id].filled_quantity = order.quantity,
                              !.orders[id].filled_price = executed_price]
             ELSE [r.b EXCEPT !.orders[id].status = "rejected"]

\* place_order storing the order before it validates the arguments
place_order_store_first(b, symbol, quantity, side, order_type, price, stop_price) ==
  LET order == Order(symbol, side, order_type, quantity, price, stop_price)
      b1 == [b EXCEPT !.orders = Append(@, order)]
      order_id == Len(b1.orders)
      fail == [b |-> b1, raised |-> "ValueError", ret |-> 0]
  IN IF quantity <= 0 THEN fail
     ELSE IF side \notin {"buy", "sell"} THEN fail
     ELSE IF order_type \notin {"market", "limit", "stop", "stop_limit"} THEN fail
     ELSE IF OrderSide(Upper(side)) = "ValueError" THEN fail
     ELSE IF OrderType(Upper(order_type)) = "ValueError" THEN fail
     ELSE [b |-> IF order_type = "market"
                 THEN _execute_market_order(b1, order_id)
                 ELSE b1,
           raised |-> "none", ret |-> order_id]

\* returns [b, raised, ret]: ret is the order id, 0 when the call raised
place_order(b, symbol, quantity, side, order_type, price, stop_price) ==
  LET fail == [b |-> b, raised |-> "ValueError", ret |-> 0]
  IN IF quantity <= 0 THEN fail
     ELSE IF side \notin {"buy", "sell"} THEN fail
     ELSE IF order_type \notin {"market", "limit", "stop", "stop_limit"} THEN fail
     ELSE IF OrderSide(Upper(side)) = "ValueError" THEN fail
     ELSE IF OrderType(Upper(order_type)) = "ValueError" THEN fail
     ELSE LET order_id == Len(b.orders) + 1
              order == Order(symbol, OrderSide(Upper(side)),
                             OrderType(Upper(order_type)), quantity, price,
                             stop_price)
              b1 == [b EXCEPT !.orders = Append(@, order)]
          IN [b |-> IF order_type = "market"
                    THEN _execute_market_order(b1, order_id)
                    ELSE b1,
              raised |-> "none", ret |-> order_id]

\* cancel_order without the status test: any stored order is cancelled, and
\* an unknown id is reported as cancelled
cancel_order_unchecked(b, order_id) ==
  IF order_id \notin DOMAIN b.orders THEN [b |-> b, ret |-> TRUE]
  ELSE [b |-> [b EXCEPT !.orders[order_id].status = "cancelled"], ret |-> TRUE]

\* returns [b, ret]
cancel_order(b, order_id) ==
  IF order_id \notin DOMAIN b.orders THEN [b |-> b, ret |-> FALSE]
  ELSE IF b.orders[order_id].status \in {"filled", "cancelled", "rejected"}
       THEN [b |-> b, ret |-> FALSE]
  ELSE [b |-> [b EXCEPT !.orders[order_id].status = "cancelled"], ret |-> TRUE]

\* One loop of _check_pending_orders over list(self.orders.values()), from
\* index i on, for the orders of type order_type; trigger is the field the
\* loop compares with.  Comparing a price with None raises TypeError.
RECURSIVE CheckLoop(_, _, _, _, _)
CheckLoop(b, symbol, current_price, order_type, i) ==
  IF i > Len(b.orders) THEN [b |-> b, raised |-> "none"]
  ELSE LET order == b.orders[i]
           trigger == IF order_type = "limit" THEN order.price
                      ELSE order.stop_price
           should_execute ==
             IF order_type = "limit"
             THEN IF order.side = "buy" THEN current_price <= trigger
                  ELSE current_price >= trigger
             ELSE IF order.side = "buy" THEN current_price >= trigger
                  ELSE current_price <= trigger
       IN IF order.status = "pending" /\ order.symbol = symbol
             /\ order.order_type = order_type
          THEN IF trigger = NoPrice THEN [b |-> b, raised |-> "TypeError"]
               ELSE CheckLoop(IF should_execute
                              THEN _execute_market_order(b, i) ELSE b,
                              symbol, current_price, order_type, i + 1)
          ELSE CheckLoop(b, symbol, current_price, order_type, i + 1)

\* returns [b, raised]
_check_pending_orders(b, symbol) ==
  IF symbol \notin DOMAIN b.price_data THEN [b |-> b, raised |-> "none"]
  ELSE LET current_price == b.price_data[symbol]
           limits == CheckLoop(b, symbol, current_price, "limit", 1)
       IN IF limits.raised # "none" THEN limits
          ELSE CheckLoop(limits.b, symbol, current_price, "stop", 1)

\* returns [b, raised]
update_price(b, symbol, price) ==
  _check_pending_orders([b EXCEPT !.price_data = DictSet(@, symbol, price)],
                        symbol)

RECURSIVE SumMarketValue(_, _)
SumMarketValue(positions, keys) ==
  IF keys = {} THEN 0
  ELSE LET k == CHOOSE x \in keys : TRUE
       IN positions[k].market_value + SumMarketValue(positions, keys \ {k})

\* `if current_price:` is false for None and for a price of 0
_update_positions_value(b) ==
  LET marked == {s \in DOMAIN b.positions :
                   _get_current_price(b, s) \notin {NoPrice, 0}}
      positions1 ==
        [s \in DOMAIN b.positions |->
           IF s \in marked
           THEN LET cp == _get_current_price(b, s)
                    p == b.positions[s]
                IN [p EXCEPT !.current_price = cp,
                             !.market_value = p.quantity * cp,
                             !.unrealized_pnl =
                               RatMulInt(RatSub(RatInt(cp), p.average_price),
                                         p.quantity)]
           ELSE b.positions[s]]
  IN [b EXCEPT !.positions = positions1,
               !.total_value = b.cash + SumMarketValue(positions1, marked)]

\* returns [b, info]: _update_positions_value mutates the broker
get_account_info(b) ==
  LET b1 == _update_positions_value(b)
  IN [b |-> b1, info |-> [cash |-> b1.cash, total_value |-> b1.total_value]]

(***************************************************************************)
(* RiskManager.  cfg is the RiskConfig; every check returns                *)
(*   [b, ok, raised, alerts], b being the broker after the                 *)
(* get_account_info calls the check makes.                                 *)
(***************************************************************************)
RiskAlert(alert_type, symbol, severity) ==
  [alert_type |-> alert_type, symbol |-> symbol, severity |-> severity]

\* logs the alert and hands it to every registered callback, each call
\* wrapped in try/except
_trigger_alert(alerts, alert) == Append(alerts, alert)

CheckResult(b, ok, raised, alerts) ==
  [b |-> b, ok |-> ok, raised |-> raised, alerts |-> alerts]

\* _check_position_limit testing the signal type against the broker's
\* lower-case side names
_check_position_limit_lower(b, cfg, alerts, symbol, quantity, price, signal_type) ==
  LET order_value == quantity * price
      b1 == get_account_info(b).b
  IN IF signal_type = "buy" /\ order_value > cfg.max_position_per_stock
     THEN CheckResult(b1, FALSE, "none",
            _trigger_alert(alerts, RiskAlert("position_limit", symbol, "medium")))
     ELSE CheckResult(b1, TRUE, "none", alerts)

_check_position_limit(b, cfg, alerts, symbol, quantity, price, signal_type) ==
  LET order_value == quantity * price
      b1 == get_account_info(b).b
  IN IF signal_type = "BUY" /\ order_value > cfg.max_position_per_stock
     THEN CheckResult(b1, FALSE, "none",
            _trigger_alert(alerts, RiskAlert("position_limit", symbol, "medium")))
     ELSE CheckResult(b1, TRUE, "none", alerts)

\* num / portfolio_value > max_portfolio_risk, for portfolio_value # 0
ExposureExceeds(num, portfolio_value, max_portfolio_risk) ==
  IF portfolio_value > 0
  THEN num * Percent > max_portfolio_risk * portfolio_value
  ELSE num * Percent < max_portfolio_risk * portfolio_value

_check_portfolio_exposure(b, cfg, alerts, symbol, quantity, price, signal_type) ==
  LET order_value == quantity * price
      acc == get_account_info(b)
      b1 == acc.b
      portfolio_value == acc.info.total_value
      held == symbol \in DOMAIN b1.positions
      divides == signal_type = "BUY" \/ held
      num == IF signal_type = "BUY" THEN order_value
             ELSE IF held THEN b1.positions[symbol].market_value - quantity * price
             ELSE 0
  IN IF divides /\ portfolio_value = 0
     THEN CheckResult(b1, FALSE, "ZeroDivisionError", alerts)
     ELSE IF (divides /\ ExposureExceeds(num, portfolio_value,
                                         cfg.max_portfolio_risk))
             \/ (~divides /\ 0 > cfg.max_portfolio_risk)
     THEN CheckResult(b1, FALSE, "none",
            _trigger_alert(alerts, RiskAlert("portfolio_exposure", symbol, "high")))
     ELSE CheckResult(b1, TRUE, "none", alerts)

\* every order of the model is created on the day of the check
_check_daily_order_limit(b, cfg, alerts) ==
  LET today_orders == {i \in DOMAIN b.orders : b.orders[i].status = "filled"}
  IN IF Cardinality(today_orders) >= cfg.max_orders_per_day
     THEN CheckResult(b, FALSE, "none",
            _trigger_alert(alerts, RiskAlert("daily_order_limit", "ALL", "medium")))
     ELSE CheckResult(b, TRUE, "none", alerts)

_check_cash_availability(b, cfg, alerts, symbol, quantity, price, signal_type) ==
  IF signal_type = "BUY"
  THEN LET acc == get_account_info(b)
           order_cost == (quantity * price * CashBufferPermille) \div Mills
       IN IF acc.info.cash < order_cost
          THEN CheckResult(acc.b, FALSE, "none",
                 _trigger_alert(alerts,
                                RiskAlert("insufficient_cash", symbol, "high")))
          ELSE CheckResult(acc.b, TRUE, "none", alerts)
  ELSE CheckResult(b, TRUE, "none", alerts)

\* validate_signal running every check before it answers
validate_signal_all(b, cfg, symbol, signal_type, quantity, price) ==
  LET c1 == _check_position_limit(b, cfg, <<>>, symbol, quantity, price,
                                  signal_type)
      c2 == _check_portfolio_exposure(c1.b, cfg, c1.alerts, symbol, quantity,
                                      price, signal_type)
      c3 == _check_daily_order_limit(c2.b, cfg, c2.alerts)
      c4 == _check_cash_availability(c3.b, cfg, c3.alerts, symbol, quantity,
                                     price, signal_type)
  IN IF c2.raised # "none" THEN c2
     ELSE CheckResult(c4.b, c1.ok /\ c2.ok /\ c3.ok /\ c4.ok, "none", c4.alerts)

\* returns [b, ok, raised, alerts]; ok is the value returned when raised is
\* "none"
validate_signal(b, cfg, symbol, signal_type, quantity, price) ==
  LET c1 == _check_position_limit(b, cfg, <<>>, symbol, quantity, price,
                                  signal_type)
      c2 == _check_portfolio_exposure(c1.b, cfg, c1.alerts, symbol, quantity,
                                      price, signal_type)
      c3 == _check_daily_order_limit(c2.b, cfg, c2.alerts)
      c4 == _check_cash_availability(c3.b, cfg, c3.alerts, symbol, quantity,
                                     price, signal_type)
  IN IF ~c1.ok THEN c1
     ELSE IF ~c2.ok THEN c2
     ELSE IF ~c3.ok THEN c3
     ELSE c4

\* check_daily_loss_limit measures the loss against the literal 100000.0, not
\* against the broker's initial cash:
\*   (total_value - initial_value) / initial_value <= -max_daily_loss
check_daily_loss_limit(b, cfg, alerts) ==
  LET a == get_account_info(b)
      total_value == a.info.total_value
      initial_value == InitialValue * Mills
  IN IF total_value - initial_value <= -(cfg.max_daily_loss * InitialValue)
     THEN CheckResult(a.b, FALSE, "none",
                      _trigger_alert(alerts,
                                     RiskAlert("daily_loss_limit", "ALL",
                                               "critical")))
     ELSE CheckResult(a.b, TRUE, "none", alerts)

\* returns the set of the instructions "SELL_<symbol>_STOPLOSS" and
\* "SELL_<symbol>_TAKEPROFIT"; the scan reads position.current_price, the
\* price the position was last marked at, and writes nothing
check_stop_loss_take_profit(b, stop_loss_prices, take_profit_prices) ==
  {[side |-> "SELL", symbol |-> x, kind |-> "STOPLOSS"] :
     x \in {y \in DOMAIN b.positions \cap DOMAIN stop_loss_prices :
              /\ b.positions[y].quantity > 0
              /\ b.positions[y].current_price <= stop_loss_prices[y]}}
  \cup
  {[side |-> "SELL", symbol |-> x, kind |-> "TAKEPROFIT"] :
     x \in {y \in DOMAIN b.positions \cap DOMAIN take_profit_prices :
              /\ b.positions[y].quantity > 0
              /\ b.positions[y].current_price >= take_profit_prices[y]}}

(***************************************************************************)
(* TradingScheduler.  A time of day is datetime.time, the tuple            *)
(*   <<hour, minute, second, microsecond>>                                 *)
(* which Python compares field by field.  A scheduler value s is the       *)
(* record [is_running, tasks, jobs, market_open, market_close,             *)
(* lunch_break_start, lunch_break_end]; tasks is the dict self.tasks and   *)
(* jobs the set of job ids that self.scheduler, the library's              *)
(* BackgroundScheduler, knows.                                             *)
(***************************************************************************)
time(hour, minute) == <<hour, minute, 0, 0>>

TimeLeq(a, b) ==
  \E k \in 1..5 :
    /\ \A j \in 1..(k - 1) : a[j] = b[j]
    /\ k <= 4 => a[k] < b[k]

NewScheduler ==
  [is_running |-> FALSE, tasks |-> <<>>, jobs |-> {},
   market_open |-> time(9, 30), market_close |-> time(15, 0),
   lunch_break_start |-> time(11, 30), lunch_break_end |-> time(13, 0)]

\* a task function is a bound method of a controller
BoundMethod(self, name) == [self |-> self, name |-> name]

\* add_job(id=task_name, replace_existing=True) and self.tasks[task_name]:
\* a task registered under the same name is replaced
_add_task(s, task_name, task_func, trigger) ==
  [s EXCEPT !.jobs = @ \cup {task_name},
            !.tasks = DictSet(@, task_name,
                              [function |-> task_func, trigger |-> trigger,
                               enabled |-> TRUE])]

\* IntervalTrigger(minutes, start_date="09:30:00", end_date="15:00:00") is
\* library code: trigger_ok says whether it accepts these date strings or
\* raises ValueError, which leaves _add_task unreached
add_market_analysis_task(s, task_func, task_name, trigger_ok) ==
  IF trigger_ok
  THEN [s |-> _add_task(s, task_name, task_func, "interval"),
        raised |-> "none"]
  ELSE [s |-> s, raised |-> "ValueError"]

add_portfolio_check_task(s, task_func, task_name) ==
  _add_task(s, task_name, task_func, "interval")

add_daily_report_task(s, task_func, task_name) ==
  _add_task(s, task_name, task_func, "cron")

scheduler_start(s) ==
  IF ~s.is_running THEN [s EXCEPT !.is_running = TRUE] ELSE s

\* stop(); self.scheduler.shutdown() is library code: cleared says whether
\* its job store drops the jobs it holds
scheduler_shutdown(s, cleared) ==
  IF s.is_running
  THEN [s EXCEPT !.is_running = FALSE, !.jobs = IF cleared THEN {} ELSE @]
  ELSE s

\* stop() where the job store is not read afterwards
scheduler_stop(s) == scheduler_shutdown(s, FALSE)

\* what pause_task, resume_task and remove_task return: the scheduler, the
\* exception that leaves the method and the exception its except clause
\* caught and logged
TaskResult(s, raised, caught) == [s |-> s, raised |-> raised, caught |-> caught]

\* pause_task without its try/except
pause_task_uncaught(s, task_name) ==
  IF task_name \notin s.jobs THEN TaskResult(s, "JobLookupError", "none")
  ELSE IF task_name \in DOMAIN s.tasks
  THEN TaskResult([s EXCEPT !.tasks[task_name].enabled = FALSE], "none",
                  "none")
  ELSE TaskResult(s, "none", "none")

\* pause_job raises JobLookupError for an id the library does not know
pause_task(s, task_name) ==
  IF task_name \notin s.jobs THEN TaskResult(s, "none", "JobLookupError")
  ELSE IF task_name \in DOMAIN s.tasks
  THEN TaskResult([s EXCEPT !.tasks[task_name].enabled = FALSE], "none",
                  "none")
  ELSE TaskResult(s, "none", "none")

\* resume_job raises JobLookupError for an id the library does not know,
\* and removes the job when its trigger has no run left (exhausted)
resume_task(s, task_name, exhausted) ==
  IF task_name \notin s.jobs THEN TaskResult(s, "none", "JobLookupError")
  ELSE LET s1 == IF exhausted THEN [s EXCEPT !.jobs = @ \ {task_name}]
                 ELSE s
       IN IF task_name \in DOMAIN s.tasks
          THEN TaskResult([s1 EXCEPT !.tasks[task_name].enabled = TRUE],
                          "none", "none")
          ELSE TaskResult(s1, "none", "none")

\* remove_job raises JobLookupError for an id the library does not know
remove_task(s, task_name) ==
  IF task_name \notin s.jobs THEN TaskResult(s, "none", "JobLookupError")
  ELSE LET s1 == [s EXCEPT !.jobs = @ \ {task_name}]
       IN IF task_name \in DOMAIN s.tasks
          THEN TaskResult([s1 EXCEPT !.tasks = DictDel(@, task_name)],
                          "none", "none")
          ELSE TaskResult(s1, "none", "none")

\* is_market_open with the lunch break compared by < at both ends
is_market_open_strict_lunch(s, now) ==
  IF ~(TimeLeq(s.market_open, now) /\ TimeLeq(now, s.market_close))
  THEN FALSE
  ELSE IF ~TimeLeq(now, s.lunch_break_start)
          /\ ~TimeLeq(s.lunch_break_end, now)
       THEN FALSE
       ELSE TRUE

\* now is datetime.now(self.timezone).time()
is_market_open(s, now) ==
  IF ~(TimeLeq(s.market_open, now) /\ TimeLeq(now, s.market_close))
  THEN FALSE
  ELSE IF TimeLeq(s.lunch_break_start, now)
          /\ TimeLeq(now, s.lunch_break_end)
       THEN FALSE
       ELSE TRUE

\* now is the instant [time, month_end]; month_end says that the day after
\* now's day is not a day of now's month, where replace(day=day + 1) raises
get_next_market_open(s, now) ==
  IF TimeLeq(s.market_open, now.time) /\ now.month_end
  THEN [raised |-> "ValueError", next_day |-> FALSE]
  ELSE [raised |-> "none", next_day |-> TimeLeq(s.market_open, now.time)]

(***************************************************************************)
(* Callback lists.  A registered callback is one that returns ("ok"), one  *)
(* that raises ("raises"), or one of the controller's own handlers, which  *)
(* AutomatedTrader.__init__ registers with the monitor and the risk        *)
(* manager.                                                                *)
(***************************************************************************)
HandlerKinds == {"_handle_price_alert", "_handle_risk_alert"}

FirstRaising(callbacks) ==
  CHOOSE k \in DOMAIN callbacks :
    /\ callbacks[k] = "raises"
    /\ \A j \in 1..(k - 1) : callbacks[j] # "raises"

\* the callback loop without its try/except: the first exception ends the
\* loop and propagates
InvokeAllUncaught(callbacks) ==
  IF \A i \in DOMAIN callbacks : callbacks[i] # "raises"
  THEN [calls |-> [i \in DOMAIN callbacks |-> 1], raised |-> FALSE]
  ELSE [calls |-> [i \in DOMAIN callbacks |->
                     IF i <= FirstRaising(callbacks) THEN 1 ELSE 0],
        raised |-> TRUE]

\* for callback in callbacks: try: callback(x) except Exception: log
\* calls[i] is how often callback i was invoked, raised whether an exception
\* left the loop
InvokeAll(callbacks) ==
  [calls |-> [i \in DOMAIN callbacks |-> 1], raised |-> FALSE]

\* counts the alert in daily_stats and fans it out to the controller's
\* alert callbacks
_handle_price_alert(t) ==
  LET r == InvokeAll(t.alert_callbacks)
  IN [alerts_count |-> 1, calls |-> r.calls, raised |-> r.raised]

_handle_risk_alert(t) ==
  LET r == InvokeAll(t.alert_callbacks)
  IN [alerts_count |-> 1, calls |-> r.calls, raised |-> r.raised]

HandlerResult(kind, t) ==
  IF kind = "_handle_price_alert" THEN _handle_price_alert(t)
  ELSE _handle_risk_alert(t)

\* one alert handed to the callbacks registered with the monitor or the
\* risk manager: outer[i] counts the invocations of registered callback i,
\* inner[j] those of the controller's alert callback j, alerts_count the
\* increments of daily_stats['alerts_count']
DeliverAlert(callbacks, t) ==
  LET kinds == [i \in DOMAIN callbacks |->
                  IF callbacks[i] \in HandlerKinds
                  THEN IF HandlerResult(callbacks[i], t).raised
                       THEN "raises" ELSE "ok"
                  ELSE callbacks[i]]
      r == InvokeAll(kinds)
      handled == Cardinality({i \in DOMAIN callbacks :
                                callbacks[i] \in HandlerKinds
                                /\ r.calls[i] = 1})
  IN [outer |-> r.calls,
      inner |-> [j \in DOMAIN t.alert_callbacks |->
                   handled * _handle_price_alert(t).calls[j]],
      alerts_count |-> handled,
      raised |-> r.raised]

\* n alerts delivered one after the other
DeliverAlerts(callbacks, t, n) ==
  LET d == DeliverAlert(callbacks, t)
  IN [outer |-> [i \in DOMAIN callbacks |-> n * d.outer[i]],
      inner |-> [j \in DOMAIN t.alert_callbacks |-> n * d.inner[j]],
      alerts_count |-> n * d.alerts_count,
      raised |-> n > 0 /\ d.raised]

(***************************************************************************)
(* MarketMonitor.  A monitor value m is the record [watchlist,             *)
(* is_monitoring, monitor_thread, price_history, volume_baseline,          *)
(* alert_callbacks]; price_history maps a symbol to its snapshots, oldest  *)
(* first.  What the data source returns for a symbol is the record         *)
(* [kind, price, volume] with kind "error" (the fetch raises), "empty" or  *)
(* "data".                                                                 *)
(***************************************************************************)
MarketData(price, volume, change_percent) ==
  [price |-> price, volume |-> volume, change_percent |-> change_percent]

PriceAlert(symbol, alert_type, current_price, change_percent) ==
  [symbol |-> symbol, alert_type |-> alert_type,
   current_price |-> current_price, change_percent |-> change_percent]

\* _update_volume_baseline without a reachable data source
NewMonitor(watchlist, alert_callbacks) ==
  [watchlist |-> watchlist, is_monitoring |-> FALSE, monitor_thread |-> 0,
   price_history |-> [i \in {watchlist[k] : k \in DOMAIN watchlist} |-> <<>>],
   volume_baseline |-> [i \in {watchlist[k] : k \in DOMAIN watchlist} |->
                          DefaultVolumeBaseline],
   alert_callbacks |-> alert_callbacks]

\* the percentage (price - base) / base * 100
PercentChange(price, base) == Rat((price - base) * Percent, base)

\* _detect_price_anomalies raising the price alert only above the threshold
_detect_price_anomalies_above(m, symbol, market_data) ==
  LET history == m.price_history[symbol]
      cp == market_data.change_percent
      change == IF Abs(cp.n) > PriceChangeThreshold * cp.d
                THEN <<PriceAlert(symbol, "price_change", market_data.price,
                                  cp)>>
                ELSE <<>>
      gap == IF Len(history) > 1
             THEN LET g == PercentChange(market_data.price,
                                         history[Len(history) - 1].price)
                  IN IF g.n >= GapThreshold * g.d
                     THEN <<PriceAlert(symbol, "gap_up", market_data.price,
                                       g)>>
                     ELSE IF g.n <= -(GapThreshold * g.d)
                     THEN <<PriceAlert(symbol, "gap_down", market_data.price,
                                       g)>>
                     ELSE <<>>
             ELSE <<>>
  IN change \o gap

_detect_price_anomalies(m, symbol, market_data) ==
  LET history == m.price_history[symbol]
      cp == market_data.change_percent
      change == IF Abs(cp.n) >= PriceChangeThreshold * cp.d
                THEN <<PriceAlert(symbol, "price_change", market_data.price,
                                  cp)>>
                ELSE <<>>
      gap == IF Len(history) > 1
             THEN LET g == PercentChange(market_data.price,
                                         history[Len(history) - 1].price)
                  IN IF g.n >= GapThreshold * g.d
                     THEN <<PriceAlert(symbol, "gap_up", market_data.price,
                                       g)>>
                     ELSE IF g.n <= -(GapThreshold * g.d)
                     THEN <<PriceAlert(symbol, "gap_down", market_data.price,
                                       g)>>
                     ELSE <<>>
             ELSE <<>>
  IN change \o gap

_detect_volume_anomalies(m, symbol, market_data) ==
  IF symbol \in DOMAIN m.volume_baseline /\ m.volume_baseline[symbol] > 0
     /\ market_data.volume >= VolumeSpikeThreshold * m.volume_baseline[symbol]
  THEN <<PriceAlert(symbol, "volume_spike", market_data.price, RatInt(0))>>
  ELSE <<>>

\* the loop body dropping the symbol's snapshots when the fetch fails or
\* returns nothing
CheckSymbolForgetting(m, symbol, fetched) ==
  IF fetched.kind # "data"
  THEN [m |-> [m EXCEPT !.price_history[symbol] = <<>>], alerts |-> <<>>]
  ELSE
    LET history == m.price_history[symbol]
        previous_price == IF Len(history) > 0
                          THEN history[Len(history)].price ELSE NoPrice
        market_data ==
          MarketData(fetched.price, fetched.volume,
                     IF previous_price \notin {NoPrice, 0}
                     THEN PercentChange(fetched.price, previous_price)
                     ELSE RatInt(0))
    IN [m |-> [m EXCEPT !.price_history[symbol] = Append(history, market_data)],
        alerts |-> _detect_price_anomalies(m, symbol, market_data)
                   \o _detect_volume_anomalies(m, symbol, market_data)]

\* the loop body cutting the history back to its first HistoryCap snapshots
CheckSymbolKeepingOldest(m, symbol, fetched) ==
  IF fetched.kind # "data" THEN [m |-> m, alerts |-> <<>>]
  ELSE
    LET history == m.price_history[symbol]
        previous_price == IF Len(history) > 0
                          THEN history[Len(history)].price ELSE NoPrice
        market_data ==
          MarketData(fetched.price, fetched.volume,
                     IF previous_price \notin {NoPrice, 0}
                     THEN PercentChange(fetched.price, previous_price)
                     ELSE RatInt(0))
        appended == Append(history, market_data)
        kept == IF Len(appended) > HistoryCap
                THEN SubSeq(appended, 1, HistoryCap)
                ELSE appended
    IN [m |-> [m EXCEPT !.price_history[symbol] = kept],
        alerts |-> _detect_price_anomalies(m, symbol, market_data)
                   \o _detect_volume_anomalies(m, symbol, market_data)]

\* the body of the loop over the watchlist for one symbol; returns [m, alerts]
CheckSymbol(m, symbol, fetched) ==
  IF fetched.kind # "data" THEN [m |-> m, alerts |-> <<>>]
  ELSE
    LET history == m.price_history[symbol]
        previous_price == IF Len(history) > 0
                          THEN history[Len(history)].price ELSE NoPrice
        market_data ==
          MarketData(fetched.price, fetched.volume,
                     IF previous_price \notin {NoPrice, 0}
                     THEN PercentChange(fetched.price, previous_price)
                     ELSE RatInt(0))
        appended == Append(history, market_data)
        kept == IF Len(appended) > HistoryCap
                THEN SubSeq(appended, Len(appended) - HistoryCap + 1,
                            Len(appended))
                ELSE appended
    IN [m |-> [m EXCEPT !.price_history[symbol] = kept],
        alerts |-> _detect_price_anomalies(m, symbol, market_data)
                   \o _detect_volume_anomalies(m, symbol, market_data)]

RECURSIVE CheckSymbols(_, _, _, _)
CheckSymbols(m, fetch, i, alerts) ==
  IF i > Len(m.watchlist) THEN [m |-> m, alerts |-> alerts]
  ELSE LET r == CheckSymbol(m, m.watchlist[i], fetch[m.watchlist[i]])
       IN CheckSymbols(r.m, fetch, i + 1, alerts \o r.alerts)

\* one poll cycle; fetch maps each watched symbol to what the data source
\* returns for it; returns [m, alerts], the alerts in the order raised
_check_market_data(m, fetch) == CheckSymbols(m, fetch, 1, <<>>)

(***************************************************************************)
(* AutomatedTrader.  A controller value t is the record [is_running,       *)
(* trading_thread, enable_auto_trading, enable_monitoring,                 *)
(* alert_callbacks, trade_callbacks, risk_callbacks].  Its scheduler is    *)
(* the module-level trading_scheduler.  th holds the threads ever started: *)
(* th.trading the _trading_loop threads and th.monitor the _monitor_loop   *)
(* threads, each a record whose pc is "test" (at the while condition),     *)
(* "body" (inside the try), "sleep", "except" (sleeping in the handler) or *)
(* "done"; raised is the exception the handler caught until the next       *)
(* while test, and signalled says that stop() or stop_monitoring() has     *)
(* run since the thread was started.                                       *)
(***************************************************************************)
\* the methods the class AutomatedTrader defines
AutomatedTraderMethods ==
  {"__init__", "start", "stop", "_setup_scheduled_tasks", "_trading_loop",
   "_run_market_analysis", "_check_trading_signal", "_execute_buy_signal",
   "_run_risk_check", "_run_stop_loss_check", "_execute_stop_order",
   "_handle_price_alert", "_handle_risk_alert", "_generate_daily_report",
   "add_alert_callback", "add_trade_callback", "get_status", "manual_trade",
   "trading_scheduler"}

\* looking up an attribute the class does not define raises AttributeError
GetAttr(name) ==
  IF name \in AutomatedTraderMethods THEN name ELSE "AttributeError"

\* risk_callbacks is self.risk_manager.alert_callbacks
NewTrader(enable_auto_trading, enable_monitoring, alert_callbacks, trade_callbacks, risk_callbacks) ==
  [is_running |-> FALSE, trading_thread |-> 0,
   enable_auto_trading |-> enable_auto_trading,
   enable_monitoring |-> enable_monitoring,
   alert_callbacks |-> alert_callbacks, trade_callbacks |-> trade_callbacks,
   risk_callbacks |-> risk_callbacks]

Instant(t, month_end) == [time |-> t, month_end |-> month_end]

NewLoop == [pc |-> "test", signalled |-> FALSE, raised |-> "none"]

NoThreads == [trading |-> <<>>, monitor |-> <<>>]

Signal(loops) ==
  [i \in DOMAIN loops |->
     IF loops[i].pc # "done" THEN [loops[i] EXCEPT !.signalled = TRUE]
     ELSE loops[i]]

start_monitoring(m, th) ==
  IF m.is_monitoring THEN [m |-> m, th |-> th]
  ELSE [m |-> [m EXCEPT !.is_monitoring = TRUE,
                        !.monitor_thread = Len(th.monitor) + 1],
        th |-> [th EXCEPT !.monitor = Append(@, NewLoop)]]

\* join(timeout=5) returns whether or not the thread has ended
stop_monitoring(m, th) ==
  IF ~m.is_monitoring THEN [m |-> m, th |-> th]
  ELSE [m |-> [m EXCEPT !.is_monitoring = FALSE],
        th |-> [th EXCEPT !.monitor = Signal(@)]]

\* self names the controller whose methods are registered; the scheduler s
\* is the module-level trading_scheduler, whichever controller calls
_setup_scheduled_tasks(self, s, trigger_ok) ==
  LET a == add_market_analysis_task(s, BoundMethod(self, "_run_market_analysis"),
                                    "market_analysis", trigger_ok)
  IN IF a.raised # "none" THEN a
     ELSE [s |-> add_daily_report_task(
                   add_portfolio_check_task(
                     add_portfolio_check_task(
                       a.s, BoundMethod(self, "_run_risk_check"), "risk_check"),
                     BoundMethod(self, "_run_stop_loss_check"),
                     "stop_loss_check"),
                   BoundMethod(self, "_generate_daily_report"), "daily_report"),
           raised |-> "none"]

\* returns [t, m, s, th, raised]
start(self, t, m, s, th, trigger_ok) ==
  IF t.is_running
  THEN [t |-> t, m |-> m, s |-> s, th |-> th, raised |-> "none"]
  ELSE
    LET t1 == [t EXCEPT !.is_running = TRUE]
        mon == IF t.enable_monitoring THEN start_monitoring(m, th)
               ELSE [m |-> m, th |-> th]
        setup == _setup_scheduled_tasks(self, s, trigger_ok)
    IN IF setup.raised # "none"
       THEN [t |-> t1, m |-> mon.m, s |-> s, th |-> mon.th,
             raised |-> setup.raised]
       ELSE [t |-> [t1 EXCEPT !.trading_thread = Len(th.trading) + 1],
             m |-> mon.m, s |-> scheduler_start(setup.s),
             th |-> [mon.th EXCEPT !.trading = Append(@, NewLoop)],
             raised |-> "none"]

\* returns [t, m, s, th]
stop(t, m, s, th) ==
  IF ~t.is_running THEN [t |-> t, m |-> m, s |-> s, th |-> th]
  ELSE LET mon == stop_monitoring(m, th)
       IN [t |-> [t EXCEPT !.is_running = FALSE], m |-> mon.m,
           s |-> scheduler_stop(s),
           th |-> [mon.th EXCEPT !.trading = Signal(@)]]

\* the try block of one iteration of _trading_loop, before the sleep
TradingIteration(s, now) ==
  IF is_market_open(s, now.time)
  THEN IF GetAttr("_execute_trading_logic") = "AttributeError"
       THEN [open |-> TRUE, raised |-> "AttributeError", evaluated |-> FALSE]
       ELSE [open |-> TRUE, raised |-> "none", evaluated |-> TRUE]
  ELSE [open |-> FALSE, raised |-> get_next_market_open(s, now).raised,
        evaluated |-> FALSE]

\* _trading_loop without its try/except: an exception ends the thread
_trading_loop_uncaught(t, s, loop, now) ==
  LET idle == [open |-> FALSE, raised |-> "none", evaluated |-> FALSE]
      r == TradingIteration(s, now)
  IN IF loop.pc = "test"
     THEN [loop |-> [loop EXCEPT !.pc = IF t.is_running THEN "body"
                                        ELSE "done",
                                 !.raised = "none"],
           iteration |-> idle]
     ELSE IF loop.pc = "body"
     THEN [loop |-> [loop EXCEPT !.pc = IF r.raised # "none" THEN "crashed"
                                        ELSE "sleep",
                                 !.raised = r.raised],
           iteration |-> r]
     ELSE [loop |-> [loop EXCEPT !.pc = "test"], iteration |-> idle]

\* one step of a _trading_loop thread: the while test, the try block of an
\* iteration at the instant now, or the end of a sleep; returns
\* [loop, iteration]
_trading_loop(t, s, loop, now) ==
  LET idle == [open |-> FALSE, raised |-> "none", evaluated |-> FALSE]
      r == TradingIteration(s, now)
  IN IF loop.pc = "test"
     THEN [loop |-> [loop EXCEPT !.pc = IF t.is_running THEN "body"
                                        ELSE "done",
                                 !.raised = "none"],
           iteration |-> idle]
     ELSE IF loop.pc = "body"
     THEN [loop |-> [loop EXCEPT !.pc = IF r.raised # "none" THEN "except"
                                        ELSE "sleep",
                                 !.raised = r.raised],
           iteration |-> r]
     ELSE [loop |-> [loop EXCEPT !.pc = "test"], iteration |-> idle]

\* one step of a _monitor_loop thread; returns [m, loop, alerts]
_monitor_loop(m, loop, fetch) ==
  IF loop.pc = "test"
  THEN [m |-> m, alerts |-> <<>>,
        loop |-> IF m.is_monitoring THEN [loop EXCEPT !.pc = "body"]
                 ELSE [loop EXCEPT !.pc = "done"]]
  ELSE IF loop.pc = "body"
  THEN LET r == _check_market_data(m, fetch)
       IN [m |-> r.m, alerts |-> r.alerts,
           loop |-> [loop EXCEPT !.pc = "sleep"]]
  ELSE [m |-> m, alerts |-> <<>>, loop |-> [loop EXCEPT !.pc = "test"]]

\* returns [b, validated, placed, order_raised, orders_count, trade,
\* trade_events, alerts, raised]: validated is "none" when validate_signal was not
\* called, "allowed", "denied" or "raised"; placed says that place_order was
\* called; trade is the fan-out of the trade event (no call when there was
\* none)
BuySignalResult(b, validated, placed, order_raised, trade, trade_events, alerts, raised) ==
  [b |-> b, validated |-> validated, placed |-> placed,
   order_raised |-> order_raised, orders_count |-> trade_events,
   trade |-> trade, trade_events |-> trade_events, alerts |-> alerts,
   raised |-> raised]

NoTrade(t) ==
  [calls |-> [i \in DOMAIN t.trade_callbacks |-> 0], raised |-> FALSE]

\* lines 249-280: p is what place_order did; its exception is caught and
\* logged, otherwise the order is counted and the trade event fanned out
BuySignalOrder(t, alerts, p) ==
  IF p.raised # "none"
  THEN BuySignalResult(p.b, "allowed", TRUE, p.raised, NoTrade(t), 0, alerts,
                       "none")
  ELSE BuySignalResult(p.b, "allowed", TRUE, "none",
                       InvokeAll(t.trade_callbacks), 1, alerts, "none")

\* _execute_buy_signal placing the order whatever validate_signal returned
BuySignalUnvalidated(t, symbol, quantity, v) ==
  IF v.raised # "none"
  THEN BuySignalResult(v.b, "raised", FALSE, "none", NoTrade(t), 0, v.alerts,
                       v.raised)
  ELSE LET r == BuySignalOrder(t, v.alerts,
                               place_order(v.b, symbol, quantity, "buy",
                                           "market", NoPrice, NoPrice))
       IN IF v.ok THEN r ELSE [r EXCEPT !.validated = "denied"]

\* lines 245-256: v is what validate_signal did
BuySignalValidated(t, symbol, quantity, v) ==
  IF v.raised # "none"
  THEN BuySignalResult(v.b, "raised", FALSE, "none", NoTrade(t), 0, v.alerts,
                       v.raised)
  ELSE IF ~v.ok
  THEN BuySignalResult(v.b, "denied", FALSE, "none", NoTrade(t), 0, v.alerts,
                       "none")
  ELSE BuySignalOrder(t, v.alerts,
                      place_order(v.b, symbol, quantity, "buy", "market",
                                  NoPrice, NoPrice))

_execute_buy_signal(t, b, cfg, symbol, price, quantity) ==
  IF ~t.enable_auto_trading
  THEN BuySignalResult(b, "none", FALSE, "none", NoTrade(t), 0, <<>>, "none")
  ELSE BuySignalValidated(t, symbol, quantity,
                          validate_signal(b, cfg, symbol, "BUY", quantity,
                                          price))

\* returns [b, validated, placed, raised, ret]; place_order's exception is
\* logged and raised again
manual_trade(t, b, symbol, quantity, side, order_type) ==
  LET p == place_order(b, symbol, quantity, side, order_type, NoPrice,
                       NoPrice)
  IN [b |-> p.b, validated |-> "none", placed |-> TRUE, raised |-> p.raised,
      ret |-> p.ret]

(***************************************************************************)
(* The callers' inputs.                                                    *)
(***************************************************************************)
PriceArgs == {NoPrice} \cup {p * Mills : p \in Prices}

Request(symbol, quantity, side, order_type, price, stop_price) ==
  [symbol |-> symbol, quantity |-> quantity, side |-> side,
   order_type |-> order_type, price |-> price, stop_price |-> stop_price]

\* requests with valid arguments: market orders carry no price, limit orders
\* a limit price or none, stop orders a stop price or none, stop_limit both
ValidRequests ==
  {Request(s, q, sd, "market", NoPrice, NoPrice) :
     s \in Symbols, q \in Quantities, sd \in {"buy", "sell"}}
  \cup {Request(s, 1, sd, "limit", p, NoPrice) :
     s \in Symbols, sd \in {"buy", "sell"}, p \in PriceArgs}
  \cup {Request(s, 1, sd, "stop", NoPrice, p) :
     s \in Symbols, sd \in {"buy", "sell"}, p \in PriceArgs}
  \cup {Request(s, 1, sd, "stop_limit", p, p) :
     s \in Symbols, sd \in {"buy", "sell"}, p \in PriceArgs \ {NoPrice}}

\* requests with a quantity <= 0, an unknown side or an unknown type
InvalidRequests ==
  {Request("AAPL", q, "buy", "market", NoPrice, NoPrice) : q \in {0, -1}}
  \cup {Request("AAPL", 1, "hold", t, NoPrice, NoPrice) :
          t \in {"market", "iceberg"}}
  \cup {Request(s, 1, "sell", "iceberg", NoPrice, NoPrice) : s \in Symbols}

OrderRequests == ValidRequests \cup InvalidRequests

ValidArgs(c) ==
  /\ c.quantity > 0
  /\ c.side \in {"buy", "sell"}
  /\ c.order_type \in {"market", "limit", "stop", "stop_limit"}

SignalTypes == {"BUY", "SELL"}

RiskConfig(max_position_per_stock, max_portfolio_risk, max_daily_loss, max_orders_per_day) ==
  [max_position_per_stock |-> max_position_per_stock,
   max_portfolio_risk |-> max_portfolio_risk,
   max_daily_loss |-> max_daily_loss,
   max_orders_per_day |-> max_orders_per_day]

\* the RiskConfig defaults (max_portfolio_risk in percent, max_daily_loss in
\* permille), a configuration with a higher exposure ratio, and one with a
\* lower position cap and a daily cap of no order
RiskConfigs ==
  {RiskConfig(10000 * Mills, 20, 50, 10),
   RiskConfig(10000 * Mills, 200, 50, 10),
   RiskConfig(50 * Mills, 20, 50, 0)}

(***************************************************************************)
(* The controller's inputs and the record of its most recent operation.    *)
(***************************************************************************)
MaxThreads == 2
MaxHistory == 3
MaxSnapshots == 102

Watchlist == <<"AAPL">>
CallbackLists == {<<>>, <<"raises", "ok">>}

\* times of day around the four configured times, to the microsecond
EdgeTimes ==
  {<<h, m, sec[1], sec[2]>> :
     h \in {9, 11, 12, 13, 14, 15}, m \in {0, 29, 30, 59},
     sec \in {<<0, 0>>, <<0, 1>>, <<59, 999999>>}}
Instants == {Instant(t, e) : t \in EdgeTimes, e \in BOOLEAN}
\* the instants a loop iteration runs at: inside trading hours, after the
\* close, and after the close on the last day of a month
LoopInstants ==
  {Instant(time(10, 0), FALSE), Instant(time(16, 0), FALSE),
   Instant(time(16, 0), TRUE)}

Fetched(kind, price, volume) ==
  [kind |-> kind, price |-> price, volume |-> volume]
\* what the data source may return for a symbol whose history is h
FetchOutcomes(h, prices, volumes) ==
  {Fetched("error", 0, 0), Fetched("empty", 0, 0)}
  \cup IF Len(h) < MaxHistory
       THEN {Fetched("data", p, v) : p \in prices, v \in volumes}
       ELSE {}
Fetches(m, prices, volumes) ==
  {f \in [DOMAIN m.price_history ->
            UNION {FetchOutcomes(m.price_history[x], prices, volumes) :
                     x \in DOMAIN m.price_history}] :
     \A x \in DOMAIN f :
       f[x] \in FetchOutcomes(m.price_history[x], prices, volumes)}

NoDelivery ==
  [outer |-> <<>>, inner |-> <<>>, alerts_count |-> 0, raised |-> FALSE]
NoFanout == [calls |-> <<>>, raised |-> FALSE]
NoIteration == [open |-> FALSE, raised |-> "none", evaluated |-> FALSE]

NoEvent ==
  [op |-> "init", self |-> "", symbol |-> "", quantity |-> 0,
   price |-> NoPrice,
   side |-> "", order_type |-> "", thread |-> 0, pc |-> "",
   was_running |-> FALSE, trigger_ok |-> FALSE,
   now |-> Instant(time(0, 0), FALSE), iteration |-> NoIteration,
   after_raise |-> FALSE, validated |-> "none", placed |-> FALSE,
   order_raised |-> "none", raised |-> "none", ok |-> FALSE, ret |-> 0,
   alerts |-> <<>>, fetch |-> <<>>, delivery |-> NoDelivery,
   trade |-> NoFanout,
   trade_events |-> 0, orders_count |-> 0, snapshots |-> <<>>,
   task_name |-> "", repeated |-> FALSE, caught |-> "none"]

\* the controller a module creates for itself: the record [t, m, th] of the
\* AutomatedTrader, its MarketMonitor and the threads it has started
Controller(t, m, th) == [t |-> t, m |-> m, th |-> th]

\* automated_trader = AutomatedTrader() at the end of automated_trader.py
ModuleTrader ==
  Controller(NewTrader(TRUE, TRUE, <<>>, <<>>, <<"_handle_risk_alert">>),
             NewMonitor(Watchlist, <<"_handle_price_alert">>), NoThreads)

(***************************************************************************)
(* State.  broker is the SimulatedBroker, config the RiskManager's         *)
(* RiskConfig, initial_cash the constructor argument.  last records the    *)
(* most recent call with its arguments and outcome, pre the broker before  *)
(* that call, prev what the call before it asked for.                      *)
(***************************************************************************)
Call(op, req, order_id, raised, ret_id, ret_ok, alerts) ==
  [op |-> op, symbol |-> req.symbol, quantity |-> req.quantity,
   side |-> req.side, order_type |-> req.order_type, price |-> req.price,
   stop_price |-> req.stop_price, order_id |-> order_id, raised |-> raised,
   ret_id |-> ret_id, ret_ok |-> ret_ok, alerts |-> alerts]

NoRequest == Request("", 0, "", "", NoPrice, NoPrice)
NoCall == Call("init", NoRequest, 0, "none", 0, FALSE, <<>>)

ExecutedPrice(price, side) ==
  IF side = "buy" THEN (price * (Mills + SlippagePermille)) \div Mills
  ELSE (price * (Mills - SlippagePermille)) \div Mills
Commission(quantity) == Max(quantity * CommissionPerShare, MinCommission)
OrderCost(price, quantity) ==
  quantity * ExecutedPrice(price, "buy") + Commission(quantity)

\* the call c, made on broker b, is a market buy with valid arguments, at a
\* known price, whose cost the cash covers
AffordableBuy(c, b) ==
  /\ c.op = "place_order" /\ ValidArgs(c)
  /\ c.order_type = "market" /\ c.side = "buy"
  /\ c.symbol \in DOMAIN b.price_data
  /\ b.cash >= OrderCost(b.price_data[c.symbol], c.quantity)

NoBuy == [buy |-> FALSE, symbol |-> "", quantity |-> 0, price |-> 0]
\* what the call before asked for: an affordable market buy on a symbol the
\* broker held no position in, or anything else
Summary(c, b) ==
  IF AffordableBuy(c, b) /\ c.symbol \notin DOMAIN b.positions
  THEN [buy |-> TRUE, symbol |-> c.symbol, quantity |-> c.quantity,
        price |-> ExecutedPrice(b.price_data[c.symbol], "buy")]
  ELSE NoBuy

Init ==
  /\ initial_cash \in InitialCashes
  /\ broker = NewBroker(initial_cash)
  /\ config \in RiskConfigs
  /\ last = NoCall
  /\ pre = broker
  /\ prev = NoBuy
  /\ trader = NewTrader(TRUE, TRUE, <<>>, <<>>, <<"_handle_risk_alert">>)
  /\ market_monitor = NewMonitor(Watchlist, <<"_handle_price_alert">>)
  /\ trading_scheduler = NewScheduler
  /\ threads = NoThreads
  /\ event = NoEvent
  /\ automated_trader = ModuleTrader

Frame == /\ pre' = broker
         /\ prev' = Summary(last, pre)
         /\ UNCHANGED <<initial_cash, config>>
         /\ UNCHANGED traderVars

PlaceOrder ==
  \E req \in OrderRequests :
    LET r == place_order(broker, req.symbol, req.quantity, req.side,
                         req.order_type, req.price, req.stop_price)
    IN /\ broker' = r.b
       /\ last' = Call("place_order", req, 0, r.raised, r.ret, FALSE, <<>>)
       /\ Frame

CancelOrder ==
  \E order_id \in 1..MaxOrderId :
    LET r == cancel_order(broker, order_id)
    IN /\ broker' = r.b
       /\ last' = Call("cancel_order", NoRequest, order_id, "none", 0, r.ret, <<>>)
       /\ Frame

UpdatePrice ==
  \E symbol \in Symbols, p \in Prices :
    LET r == update_price(broker, symbol, p * Mills)
    IN /\ broker' = r.b
       /\ last' = Call("update_price",
                       Request(symbol, 0, "", "", p * Mills, NoPrice),
                       0, r.raised, 0, FALSE, <<>>)
       /\ Frame

ValidateSignal ==
  \E symbol \in Symbols, signal_type \in SignalTypes, quantity \in Quantities,
     p \in Prices :
    LET r == validate_signal(broker, config, symbol, signal_type, quantity,
                             p * Mills)
    IN /\ broker' = r.b
       /\ last' = Call("validate_signal",
                       Request(symbol, quantity, signal_type, "", p * Mills,
                               NoPrice),
                       0, r.raised, 0, r.ok, r.alerts)
       /\ Frame

Next == PlaceOrder \/ CancelOrder \/ UpdatePrice \/ ValidateSignal

Spec == Init /\ [][Next]_vars

(***************************************************************************)
(* Market hours: is_market_open and get_next_market_open at the instants   *)
(* around the configured times.                                            *)
(***************************************************************************)
LedgerIdle ==
  /\ broker = NewBroker(initial_cash)
  /\ last = NoCall
  /\ pre = broker
  /\ prev = NoBuy

ClockInit ==
  /\ initial_cash = InitialValue * Mills
  /\ config = RiskConfig(10000 * Mills, 20, 50, 10)
  /\ LedgerIdle
  /\ trader = NewTrader(TRUE, TRUE, <<>>, <<>>, <<"_handle_risk_alert">>)
  /\ market_monitor = NewMonitor(Watchlist, <<"_handle_price_alert">>)
  /\ trading_scheduler = NewScheduler
  /\ threads = NoThreads
  /\ event = NoEvent
  /\ automated_trader = ModuleTrader

IsMarketOpen ==
  \E now \in Instants :
    /\ event' = [NoEvent EXCEPT !.op = "is_market_open", !.now = now,
                                !.ok = is_market_open(trading_scheduler,
                                                      now.time)]
    /\ UNCHANGED <<ledgerVars, automated_trader, trader, market_monitor, trading_scheduler,
                   threads>>

GetNextMarketOpen ==
  \E now \in Instants :
    LET r == get_next_market_open(trading_scheduler, now)
    IN /\ event' = [NoEvent EXCEPT !.op = "get_next_market_open",
                                   !.now = now, !.raised = r.raised,
                                   !.ok = r.next_day]
       /\ UNCHANGED <<ledgerVars, automated_trader, trader, market_monitor, trading_scheduler,
                      threads>>

ClockNext == IsMarketOpen \/ GetNextMarketOpen

ClockSpec == ClockInit /\ [][ClockNext]_vars

(***************************************************************************)
(* The controller's life cycle: start(), stop() and the steps of the       *)
(* threads they start.                                                     *)
(***************************************************************************)
LifecycleInit ==
  /\ initial_cash = InitialValue * Mills
  /\ config = RiskConfig(10000 * Mills, 20, 50, 10)
  /\ LedgerIdle
  /\ \E enable_monitoring \in BOOLEAN :
       trader = NewTrader(TRUE, enable_monitoring, <<>>, <<>>,
                          <<"_handle_risk_alert">>)
  /\ market_monitor = NewMonitor(Watchlist, <<"_handle_price_alert">>)
  /\ trading_scheduler = NewScheduler
  /\ threads = NoThreads
  /\ event = NoEvent
  /\ automated_trader = ModuleTrader

\* start() is called; the number of threads ever started is capped
Start ==
  /\ trader.is_running
     \/ (Len(threads.trading) < MaxThreads
         /\ Len(threads.monitor) < MaxThreads)
  /\ \E trigger_ok \in BOOLEAN :
       LET r == start("trader", trader, market_monitor, trading_scheduler,
                      threads, trigger_ok)
       IN /\ trader' = r.t
          /\ market_monitor' = r.m
          /\ trading_scheduler' = r.s
          /\ threads' = r.th
          /\ event' = [NoEvent EXCEPT !.op = "start",
                                      !.was_running = trader.is_running,
                                      !.trigger_ok = trigger_ok,
                                      !.raised = r.raised]
  /\ UNCHANGED <<ledgerVars, automated_trader>>

Stop ==
  LET r == stop(trader, market_monitor, trading_scheduler, threads)
  IN /\ trader' = r.t
     /\ market_monitor' = r.m
     /\ trading_scheduler' = r.s
     /\ threads' = r.th
     /\ event' = [NoEvent EXCEPT !.op = "stop",
                                 !.was_running = trader.is_running]
     /\ UNCHANGED <<ledgerVars, automated_trader>>

\* a _trading_loop thread that has not ended takes its next step
TradingLoopStep ==
  \E i \in DOMAIN threads.trading, now \in LoopInstants :
    LET loop == threads.trading[i]
        r == _trading_loop(trader, trading_scheduler, loop, now)
    IN /\ loop.pc \notin {"done", "crashed"}
       /\ loop.pc # "body" => now = Instant(time(10, 0), FALSE)
       /\ threads' = [threads EXCEPT !.trading[i] = r.loop]
       /\ event' = [NoEvent EXCEPT !.op = "_trading_loop", !.thread = i,
                                   !.pc = loop.pc,
                                   !.iteration = r.iteration,
                                   !.after_raise = loop.raised # "none",
                                   !.raised = r.iteration.raised]
       /\ UNCHANGED <<ledgerVars, automated_trader, trader, market_monitor, trading_scheduler>>

\* a _monitor_loop thread that has not ended takes its next step; the data
\* source fails or returns nothing
MonitorLoopStep ==
  \E i \in DOMAIN threads.monitor :
    \E fetch \in Fetches(market_monitor, {}, {}) :
      LET loop == threads.monitor[i]
          r == _monitor_loop(market_monitor, loop, fetch)
      IN /\ loop.pc # "done"
         /\ loop.pc # "body" =>
              \A x \in DOMAIN fetch : fetch[x].kind = "empty"
         /\ market_monitor' = r.m
         /\ threads' = [threads EXCEPT !.monitor[i] = r.loop]
         /\ event' = [NoEvent EXCEPT
                        !.op = "_monitor_loop", !.thread = i, !.pc = loop.pc,
                        !.alerts = r.alerts,
                        !.delivery =
                          DeliverAlerts(market_monitor.alert_callbacks,
                                        trader, Len(r.alerts))]
         /\ UNCHANGED <<ledgerVars, automated_trader, trader, trading_scheduler>>

LifecycleNext == Start \/ Stop \/ TradingLoopStep \/ MonitorLoopStep

LifecycleSpec == LifecycleInit /\ [][LifecycleNext]_vars

(***************************************************************************)
(* The controller's trading operations: the automated buy signal, the      *)
(* manual trade, the daily loss check and a poll cycle of the monitor.     *)
(***************************************************************************)
\* initial cash in whole units: none, less than and equal to the 100000.0
\* that check_daily_loss_limit assumes
TraderCashes == {0, 100, InitialValue}

SignalInit ==
  /\ initial_cash \in {c * Mills : c \in TraderCashes}
  /\ config = RiskConfig(10000 * Mills, 20, 50, 10)
  /\ LedgerIdle
  /\ \E enable_auto_trading \in BOOLEAN, callbacks \in CallbackLists :
       /\ trader = NewTrader(enable_auto_trading, TRUE, callbacks, callbacks,
                             <<"_handle_risk_alert">> \o callbacks)
       /\ market_monitor = NewMonitor(Watchlist,
                                      <<"_handle_price_alert">> \o callbacks)
  /\ trading_scheduler = NewScheduler
  /\ threads = NoThreads
  /\ event = NoEvent
  /\ automated_trader = ModuleTrader

BuySignalEvent(symbol, quantity, price, r) ==
  [NoEvent EXCEPT
     !.op = "_execute_buy_signal", !.symbol = symbol, !.quantity = quantity,
     !.price = price, !.validated = r.validated, !.placed = r.placed,
     !.order_raised = r.order_raised, !.raised = r.raised,
     !.alerts = r.alerts,
     !.delivery = DeliverAlerts(trader.risk_callbacks, trader, Len(r.alerts)),
     !.trade = r.trade, !.trade_events = r.trade_events,
     !.orders_count = r.orders_count]

ExecuteBuySignal ==
  \E symbol \in Symbols, p \in Prices, quantity \in Quantities :
    \E r \in {_execute_buy_signal(trader, broker, config, symbol, p * Mills,
                                  quantity)} :
       /\ broker' = r.b
       /\ event' = BuySignalEvent(symbol, quantity, p * Mills, r)
       /\ pre' = broker
       /\ UNCHANGED <<initial_cash, config, automated_trader, last, prev, trader,
                      market_monitor, trading_scheduler, threads>>

ManualTrade ==
  \E symbol \in Symbols, quantity \in Quantities \cup {0},
     side \in {"buy", "sell"}, order_type \in {"market", "limit"} :
    LET r == manual_trade(trader, broker, symbol, quantity, side, order_type)
    IN /\ broker' = r.b
       /\ event' = [NoEvent EXCEPT
                      !.op = "manual_trade", !.symbol = symbol,
                      !.quantity = quantity, !.side = side,
                      !.order_type = order_type, !.validated = r.validated,
                      !.placed = r.placed, !.raised = r.raised,
                      !.ret = r.ret]
       /\ UNCHANGED <<initial_cash, config, automated_trader, last, pre, prev, trader,
                      market_monitor, trading_scheduler, threads>>

CheckDailyLossLimit ==
  LET r == check_daily_loss_limit(broker, config, <<>>)
  IN /\ broker' = r.b
     /\ event' = [NoEvent EXCEPT
                    !.op = "check_daily_loss_limit", !.ok = r.ok,
                    !.raised = r.raised, !.alerts = r.alerts,
                    !.delivery = DeliverAlerts(trader.risk_callbacks, trader,
                                               Len(r.alerts))]
     /\ UNCHANGED <<initial_cash, config, automated_trader, last, pre, prev, trader,
                    market_monitor, trading_scheduler, threads>>

PollVolumes == {DefaultVolumeBaseline, 2 * DefaultVolumeBaseline}

PollCycle ==
  \E fetch \in Fetches(market_monitor, Prices, PollVolumes) :
    LET r == _check_market_data(market_monitor, fetch)
    IN /\ market_monitor' = r.m
       /\ event' = [NoEvent EXCEPT
                      !.op = "_check_market_data", !.alerts = r.alerts,
                      !.delivery =
                        DeliverAlerts(market_monitor.alert_callbacks, trader,
                                      Len(r.alerts))]
       /\ UNCHANGED <<ledgerVars, automated_trader, trader, trading_scheduler, threads>>

SignalNext ==
  ExecuteBuySignal \/ ManualTrade \/ CheckDailyLossLimit \/ PollCycle

SignalSpec == SignalInit /\ [][SignalNext]_vars

(***************************************************************************)
(* The market feed: a monitor that watches two symbols, with its           *)
(* _monitor_loop thread started.  The data source returns prices just      *)
(* below and exactly at the price-change threshold apart.                  *)
(***************************************************************************)
FeedWatchlist == <<"AAPL", "MSFT">>
FeedPrices == {100, 103}

\* what the data source may return in one cycle: anything for the first
\* symbol, and one price at the usual volume, or a failure, for the second
FeedFetches(m) ==
  {[x \in {"AAPL", "MSFT"} |-> IF x = "AAPL" THEN a ELSE b] :
     a \in FetchOutcomes(m.price_history["AAPL"], FeedPrices, PollVolumes),
     b \in FetchOutcomes(m.price_history["MSFT"], {100},
                         {DefaultVolumeBaseline})}

FeedInit ==
  /\ initial_cash = InitialValue * Mills
  /\ config = RiskConfig(10000 * Mills, 20, 50, 10)
  /\ LedgerIdle
  /\ trader = NewTrader(TRUE, TRUE, <<>>, <<>>, <<"_handle_risk_alert">>)
  /\ \E r \in {start_monitoring(NewMonitor(FeedWatchlist,
                                            <<"_handle_price_alert">>),
                                 NoThreads)} :
       /\ market_monitor = r.m
       /\ threads = r.th
  /\ trading_scheduler = NewScheduler
  /\ event = NoEvent
  /\ automated_trader = ModuleTrader

\* the _monitor_loop thread takes its next step
FeedLoopStep ==
  \E i \in DOMAIN threads.monitor :
    \E fetch \in FeedFetches(market_monitor) :
      LET loop == threads.monitor[i]
          r == _monitor_loop(market_monitor, loop, fetch)
      IN /\ loop.pc # "done"
         /\ loop.pc # "body" =>
              \A x \in DOMAIN fetch : fetch[x].kind = "empty"
         /\ market_monitor' = r.m
         /\ threads' = [threads EXCEPT !.monitor[i] = r.loop]
         /\ event' = [NoEvent EXCEPT
                        !.op = "_monitor_loop", !.thread = i, !.pc = loop.pc,
                        !.fetch = fetch, !.alerts = r.alerts,
                        !.delivery =
                          DeliverAlerts(market_monitor.alert_callbacks,
                                        trader, Len(r.alerts))]
         /\ UNCHANGED <<ledgerVars, automated_trader, trader,
                        trading_scheduler>>

\* stop_monitoring() is called
FeedStop ==
  LET r == stop_monitoring(market_monitor, threads)
  IN /\ market_monitor' = r.m
     /\ threads' = r.th
     /\ event' = [NoEvent EXCEPT !.op = "stop_monitoring",
                                 !.was_running = market_monitor.is_monitoring]
     /\ UNCHANGED <<ledgerVars, automated_trader, trader, trading_scheduler>>

FeedNext == FeedLoopStep \/ FeedStop

FeedSpec == FeedInit /\ [][FeedNext]_vars

(***************************************************************************)
(* The retention of snapshots: poll cycles of a monitor that watches two   *)
(* symbols, run long enough for the history of the first to pass           *)
(* HistoryCap.  event.snapshots counts the snapshots the data source has   *)
(* delivered for each symbol, and the price of a snapshot is its number,   *)
(* so that the history shows which snapshots it holds and in what order.   *)
(***************************************************************************)
\* what the data source may return in one cycle: a failure, nothing, or the
\* next snapshot; the second symbol gets MaxHistory snapshots at most
RetentionFetches(m, snapshots) ==
  {[x \in {"AAPL", "MSFT"} |-> IF x = "AAPL" THEN a ELSE b] :
     a \in {Fetched("error", 0, 0), Fetched("empty", 0, 0)}
           \cup IF snapshots["AAPL"] < MaxSnapshots
                THEN {Fetched("data", snapshots["AAPL"] + 1,
                              DefaultVolumeBaseline)}
                ELSE {},
     b \in FetchOutcomes(m.price_history["MSFT"], {snapshots["MSFT"] + 1},
                         {DefaultVolumeBaseline})}

RetentionInit ==
  /\ initial_cash = InitialValue * Mills
  /\ config = RiskConfig(10000 * Mills, 20, 50, 10)
  /\ LedgerIdle
  /\ trader = NewTrader(TRUE, TRUE, <<>>, <<>>, <<"_handle_risk_alert">>)
  /\ market_monitor = NewMonitor(FeedWatchlist, <<"_handle_price_alert">>)
  /\ threads = NoThreads
  /\ trading_scheduler = NewScheduler
  /\ event = [NoEvent EXCEPT !.snapshots = [x \in {"AAPL", "MSFT"} |-> 0]]
  /\ automated_trader = ModuleTrader

\* one poll cycle
RetentionPoll ==
  \E fetch \in RetentionFetches(market_monitor, event.snapshots) :
    LET r == _check_market_data(market_monitor, fetch)
    IN /\ market_monitor' = r.m
       /\ event' = [NoEvent EXCEPT
                      !.op = "_check_market_data", !.fetch = fetch,
                      !.snapshots =
                        [x \in DOMAIN fetch |->
                           IF fetch[x].kind = "data"
                           THEN event.snapshots[x] + 1
                           ELSE event.snapshots[x]]]
       /\ UNCHANGED <<ledgerVars, automated_trader, trader,
                      trading_scheduler, threads>>

RetentionNext == RetentionPoll

RetentionSpec == RetentionInit /\ [][RetentionNext]_vars

(***************************************************************************)
(* The tasks of a scheduler: tasks are added, paused, resumed and removed  *)
(* by name while the scheduler is started and stopped.  event.repeated     *)
(* says that the operation is the one the previous step applied, to the    *)
(* same name.                                                              *)
(***************************************************************************)
TaskNames == {"risk_check", "daily_report"}
\* the names the operations are given: those of the tasks and one that is
\* never added
TaskArguments == TaskNames \cup {"no_such_task"}

TaskInit ==
  /\ initial_cash = InitialValue * Mills
  /\ config = RiskConfig(10000 * Mills, 20, 50, 10)
  /\ LedgerIdle
  /\ trader = NewTrader(TRUE, TRUE, <<>>, <<>>, <<"_handle_risk_alert">>)
  /\ market_monitor = NewMonitor(Watchlist, <<"_handle_price_alert">>)
  /\ threads = NoThreads
  /\ trading_scheduler = NewScheduler
  /\ event = NoEvent
  /\ automated_trader = ModuleTrader

TaskEvent(op, task_name, r) ==
  [NoEvent EXCEPT !.op = op, !.task_name = task_name, !.raised = r.raised,
                  !.caught = r.caught,
                  !.repeated = event.op = op /\ event.task_name = task_name]

TaskFrame ==
  UNCHANGED <<ledgerVars, automated_trader, trader, market_monitor, threads>>

AddTask ==
  \E task_name \in TaskNames :
    /\ trading_scheduler' =
         IF task_name = "daily_report"
         THEN add_daily_report_task(
                trading_scheduler,
                BoundMethod("trader", "_generate_daily_report"), task_name)
         ELSE add_portfolio_check_task(
                trading_scheduler, BoundMethod("trader", "_run_risk_check"),
                task_name)
    /\ event' = [NoEvent EXCEPT !.op = "add_task", !.task_name = task_name]
    /\ TaskFrame

StartScheduler ==
  /\ trading_scheduler' = scheduler_start(trading_scheduler)
  /\ event' = [NoEvent EXCEPT !.op = "scheduler_start",
                              !.was_running = trading_scheduler.is_running]
  /\ TaskFrame

StopScheduler ==
  \E cleared \in BOOLEAN :
    /\ trading_scheduler' = scheduler_shutdown(trading_scheduler, cleared)
    /\ event' = [NoEvent EXCEPT !.op = "scheduler_stop",
                                !.was_running = trading_scheduler.is_running]
    /\ TaskFrame

PauseTask ==
  \E task_name \in TaskArguments :
    LET r == pause_task(trading_scheduler, task_name)
    IN /\ trading_scheduler' = r.s
       /\ event' = TaskEvent("pause_task", task_name, r)
       /\ TaskFrame

ResumeTask ==
  \E task_name \in TaskArguments, exhausted \in BOOLEAN :
    LET r == resume_task(trading_scheduler, task_name, exhausted)
    IN /\ trading_scheduler' = r.s
       /\ event' = TaskEvent("resume_task", task_name, r)
       /\ TaskFrame

RemoveTask ==
  \E task_name \in TaskArguments :
    LET r == remove_task(trading_scheduler, task_name)
    IN /\ trading_scheduler' = r.s
       /\ event' = TaskEvent("remove_task", task_name, r)
       /\ TaskFrame

TaskNext ==
  \/ AddTask \/ StartScheduler \/ StopScheduler
  \/ PauseTask \/ ResumeTask \/ RemoveTask

TaskSpec == TaskInit /\ [][TaskNext]_vars

(***************************************************************************)
(* Two controllers in one process: trader, which a caller constructs, and  *)
(* automated_trader, which the module automated_trader.py constructs when  *)
(* it is imported.  The property trading_scheduler of either returns the   *)
(* module-level TradingScheduler.                                          *)
(***************************************************************************)
Controllers == {"trader", "automated_trader"}

Self(self) ==
  IF self = "trader" THEN Controller(trader, market_monitor, threads)
  ELSE automated_trader

SetController(self, t, m, th) ==
  IF self = "trader"
  THEN /\ trader' = t
       /\ market_monitor' = m
       /\ threads' = th
       /\ UNCHANGED automated_trader
  ELSE /\ automated_trader' = Controller(t, m, th)
       /\ UNCHANGED <<trader, market_monitor, threads>>

OwnershipInit ==
  /\ initial_cash = InitialValue * Mills
  /\ config = RiskConfig(10000 * Mills, 20, 50, 10)
  /\ LedgerIdle
  /\ trader = NewTrader(TRUE, TRUE, <<>>, <<>>, <<"_handle_risk_alert">>)
  /\ market_monitor = NewMonitor(Watchlist, <<"_handle_price_alert">>)
  /\ trading_scheduler = NewScheduler
  /\ threads = NoThreads
  /\ event = NoEvent
  /\ automated_trader = ModuleTrader

\* start() of either controller
ControllerStart ==
  \E self \in Controllers, trigger_ok \in BOOLEAN :
    LET c == Self(self)
        r == start(self, c.t, c.m, trading_scheduler, c.th, trigger_ok)
    IN /\ c.t.is_running
          \/ (Len(c.th.trading) < MaxThreads /\ Len(c.th.monitor) < MaxThreads)
       /\ SetController(self, r.t, r.m, r.th)
       /\ trading_scheduler' = r.s
       /\ event' = [NoEvent EXCEPT !.op = "start", !.self = self,
                                   !.was_running = c.t.is_running,
                                   !.trigger_ok = trigger_ok,
                                   !.raised = r.raised]
       /\ UNCHANGED ledgerVars

\* stop() of either controller
ControllerStop ==
  \E self \in Controllers :
    LET c == Self(self)
        r == stop(c.t, c.m, trading_scheduler, c.th)
    IN /\ SetController(self, r.t, r.m, r.th)
       /\ trading_scheduler' = r.s
       /\ event' = [NoEvent EXCEPT !.op = "stop", !.self = self,
                                   !.was_running = c.t.is_running]
       /\ UNCHANGED ledgerVars

\* a caller registers a task of its own on a controller:
\*   c.trading_scheduler.add_portfolio_check_task(c._run_risk_check)
\* with the default task name
RegisterTask ==
  \E self \in Controllers :
    /\ trading_scheduler' =
         add_portfolio_check_task(trading_scheduler,
                                  BoundMethod(self, "_run_risk_check"),
                                  "portfolio_check")
    /\ event' = [NoEvent EXCEPT !.op = "add_portfolio_check_task",
                                !.self = self]
    /\ UNCHANGED <<ledgerVars, trader, market_monitor, threads,
                   automated_trader>>

OwnershipNext == ControllerStart \/ ControllerStop \/ RegisterTask

OwnershipSpec == OwnershipInit /\ [][OwnershipNext]_vars

(***************************************************************************)
(* Properties.  Each is stated on the most recent call (last), the broker  *)
(* before it (pre) and the broker after it (broker).                       *)
(***************************************************************************)
Placed(c) == c.op = "place_order" /\ ValidArgs(c)
Returned(c) == c.raised = "none" /\ c.ret_id \in DOMAIN broker.orders
Held(b, symbol) ==
  IF symbol \in DOMAIN b.positions THEN b.positions[symbol].quantity ELSE 0

\* C1: every PlaceOrder call with valid arguments returns an order id, an
\* order with that id is in the order set, and no call removes an order that
\* was in the order set before it.
C1_ValidPlaceOrderIsRecorded ==
  /\ Placed(last) => Returned(last)
  /\ \A i \in DOMAIN pre.orders : i \in DOMAIN broker.orders

\* C2: a call never changes the status, filled quantity or filled price of an
\* order that was filled, cancelled or rejected before it.
C2_TerminalOrdersAreFrozen ==
  \A i \in DOMAIN pre.orders :
    pre.orders[i].status \in TerminalStatuses =>
      /\ i \in DOMAIN broker.orders
      /\ broker.orders[i].status = pre.orders[i].status
      /\ broker.orders[i].filled_quantity = pre.orders[i].filled_quantity
      /\ broker.orders[i].filled_price = pre.orders[i].filled_price

Uncovered(c, b) ==
  /\ Placed(c) /\ c.order_type = "market"
  /\ \/ c.side = "sell" /\ Held(b, c.symbol) < c.quantity
     \/ /\ c.side = "buy"
        /\ c.symbol \in DOMAIN b.price_data
        /\ OrderCost(b.price_data[c.symbol], c.quantity) > b.cash

\* C4: a market sell for more than the held quantity, and a market buy whose
\* cost exceeds the cash, end with an order of status rejected and leave the
\* cash and every position as before the call.
C4_UncoveredOrderIsRejected ==
  Uncovered(last, pre) =>
    /\ Returned(last)
    /\ broker.orders[last.ret_id].status = "rejected"
    /\ broker.cash = pre.cash
    /\ broker.positions = pre.positions

\* C5: a limit buy with limit L is pending once placed; an UpdatePrice on its
\* symbol above L leaves it pending and unfilled, and the first UpdatePrice at
\* or below L fills it.
C5_LimitBuyFillsAtLimit ==
  /\ (Placed(last) /\ last.order_type = "limit" /\ last.side = "buy"
      /\ last.price # NoPrice) =>
       /\ Returned(last)
       /\ broker.orders[last.ret_id].status = "pending"
       /\ broker.orders[last.ret_id].price = last.price
  /\ last.op = "update_price" =>
       \A i \in DOMAIN pre.orders :
         LET o == pre.orders[i]
         IN (o.status = "pending" /\ o.order_type = "limit" /\ o.side = "buy"
             /\ o.symbol = last.symbol /\ o.price # NoPrice) =>
              /\ last.price > o.price => broker.orders[i] = o
              /\ last.price <= o.price => broker.orders[i].status = "filled"

\* C6: a market buy at a known price whose cost the cash covers fills at
\* marketPrice * (1 + slippage), with commission max(quantity * per-share
\* rate, minimum), and the cash after it is the cash before minus
\* quantity * executedPrice + commission.
C6_MarketBuyDebitsCost ==
  AffordableBuy(last, pre) =>
    LET market_price == pre.price_data[last.symbol]
    IN /\ Returned(last)
       /\ broker.orders[last.ret_id].status = "filled"
       /\ broker.orders[last.ret_id].filled_price =
            ExecutedPrice(market_price, "buy")
       /\ broker.cash = pre.cash - OrderCost(market_price, last.quantity)

\* C7: after a filled market buy the position's quantity and average price
\* are those of the fill when no position was held, and otherwise the sum of
\* the quantities and the quantity-weighted average of the held average and
\* the executed price: by induction, after N buys from no position,
\* quantity = SUM qty_i and average_price = SUM(qty_i * price_i) / SUM qty_i.
C7_WeightedAverageCost ==
  AffordableBuy(last, pre) =>
    LET s == last.symbol
        q == last.quantity
        e == ExecutedPrice(pre.price_data[s], "buy")
    IN /\ s \in DOMAIN broker.positions
       /\ IF s \in DOMAIN pre.positions
          THEN LET held == pre.positions[s]
               IN /\ broker.positions[s].quantity = held.quantity + q
                  /\ RatEq(broker.positions[s].average_price,
                           RatDivInt(RatAdd(RatMulInt(held.average_price,
                                                      held.quantity),
                                            RatInt(q * e)),
                                     held.quantity + q))
          ELSE /\ broker.positions[s].quantity = q
               /\ RatEq(broker.positions[s].average_price, RatInt(e))

\* the position a market sell on symbol meets: the stored one, or the one the
\* affordable market buy of the call before must have opened
HeldPosition(symbol) ==
  IF symbol \in DOMAIN pre.positions
  THEN [held |-> TRUE, quantity |-> pre.positions[symbol].quantity,
        average_price |-> pre.positions[symbol].average_price,
        realized_pnl |-> pre.positions[symbol].realized_pnl]
  ELSE IF prev.buy /\ prev.symbol = symbol
  THEN [held |-> TRUE, quantity |-> prev.quantity,
        average_price |-> RatInt(prev.price), realized_pnl |-> RatInt(0)]
  ELSE [held |-> FALSE, quantity |-> 0, average_price |-> RatInt(0),
        realized_pnl |-> RatInt(0)]

\* C8: a market sell of q shares at a known price against a position of
\* quantity Q >= q and average cost a fills at p = price * (1 - slippage),
\* credits the cash by q * p - commission, adds (p - a) * q - commission to
\* the realized P&L, leaves quantity Q - q at average cost a, and deletes the
\* position exactly when Q - q = 0.
C8_MarketSellRealizesPnl ==
  LET s == last.symbol
      q == last.quantity
      h == HeldPosition(s)
  IN (Placed(last) /\ last.order_type = "market" /\ last.side = "sell"
      /\ s \in DOMAIN pre.price_data /\ h.held /\ h.quantity >= q) =>
       LET p == ExecutedPrice(pre.price_data[s], "sell")
           commission == Commission(q)
       IN /\ Returned(last)
          /\ broker.orders[last.ret_id].status = "filled"
          /\ broker.cash = pre.cash + q * p - commission
          /\ (s \notin DOMAIN broker.positions) <=> (h.quantity = q)
          /\ h.quantity > q =>
               /\ broker.positions[s].quantity = h.quantity - q
               /\ RatEq(broker.positions[s].average_price, h.average_price)
               /\ RatEq(broker.positions[s].realized_pnl,
                        RatAdd(h.realized_pnl,
                               RatSub(RatMulInt(RatSub(RatInt(p),
                                                       h.average_price), q),
                                      RatInt(commission))))

Validated(c) == c.op = "validate_signal"
OverPositionCap(c) ==
  Validated(c) /\ c.side = "BUY"
  /\ c.quantity * c.price > config.max_position_per_stock

\* C9: ValidateSignal denies every buy whose notional quantity * price
\* exceeds max_position_per_stock, whatever the cash, and the alert it emits
\* for it is the position-limit alert.
C9_PositionCapDenies ==
  OverPositionCap(last) =>
    /\ last.raised = "none"
    /\ ~last.ret_ok
    /\ last.alerts = <<RiskAlert("position_limit", last.symbol, "medium")>>

\* a buy over the cap was denied on an account with no cash at all
C9_Witness ==
  /\ OverPositionCap(last)
  /\ ~last.ret_ok
  /\ pre.cash = 0

\* the checks of ValidateSignal, each evaluated alone on the broker before
\* the call, in the order of the specification
CheckAlone(k, c) ==
  CASE k = 1 -> _check_position_limit(pre, config, <<>>, c.symbol, c.quantity,
                                      c.price, c.side)
    [] k = 2 -> _check_portfolio_exposure(pre, config, <<>>, c.symbol,
                                          c.quantity, c.price, c.side)
    [] k = 3 -> _check_daily_order_limit(pre, config, <<>>)
    [] k = 4 -> _check_cash_availability(pre, config, <<>>, c.symbol,
                                         c.quantity, c.price, c.side)
CheckKinds ==
  <<"position_limit", "portfolio_exposure", "daily_order_limit",
    "insufficient_cash">>
Failing(c) == {k \in 1..4 : ~CheckAlone(k, c).ok}
FirstFailing(c) == CHOOSE k \in Failing(c) : \A j \in Failing(c) : k <= j

\* C10: a denied signal has exactly one alert, that of the first check that
\* fails in the order position-limit, portfolio-exposure, daily-order-count,
\* cash-sufficiency; an allowed signal has no alert and no failing check.
C10_FirstFailureAlerts ==
  (Validated(last) /\ last.raised = "none") =>
    /\ last.ret_ok <=> Failing(last) = {}
    /\ last.ret_ok => last.alerts = <<>>
    /\ ~last.ret_ok =>
         /\ Len(last.alerts) = 1
         /\ last.alerts[1].alert_type = CheckKinds[FirstFailing(last)]

\* a buy that fails all four checks was denied with the position-limit alert
C10_Witness ==
  /\ Validated(last) /\ last.raised = "none" /\ ~last.ret_ok
  /\ Failing(last) = 1..4
  /\ Len(last.alerts) = 1
  /\ last.alerts[1].alert_type = "position_limit"

(***************************************************************************)
(* Properties of the controller.  Each is stated on the record of the      *)
(* most recent operation (event) and the state it left; pre is the broker  *)
(* before that operation.                                                  *)
(***************************************************************************)
NoCalls(calls) == \A i \in DOMAIN calls : calls[i] = 0

\* C11: on the automated signal path place_order is called only after
\* validate_signal allowed the signal; when validate_signal denies or raises,
\* or auto trading is disabled, the broker's orders, positions and cash are
\* unchanged, no order is counted and no trade callback is invoked.
C11_OrderOnlyAfterValidation ==
  event.op = "_execute_buy_signal" =>
    /\ event.placed => event.validated = "allowed"
    /\ ~trader.enable_auto_trading => event.validated = "none"
    /\ event.validated # "allowed" =>
         /\ broker.orders = pre.orders
         /\ broker.positions = pre.positions
         /\ broker.cash = pre.cash
         /\ event.trade_events = 0 /\ event.orders_count = 0
         /\ NoCalls(event.trade.calls)

\* a buy signal that validate_signal denied, with callbacks registered
C11_Witness ==
  /\ event.op = "_execute_buy_signal"
  /\ event.validated = "denied"
  /\ ~event.placed
  /\ Len(trader.trade_callbacks) > 0

\* C12: every order manual_trade submits to the broker was first allowed by
\* validate_signal.
C12_ManualTradeIsValidated ==
  event.op = "manual_trade" /\ event.placed => event.validated = "allowed"

\* the account has lost at least max_daily_loss of the broker's initial cash
LossReached ==
  /\ initial_cash > 0
  /\ broker.total_value - initial_cash
       <= -(config.max_daily_loss * (initial_cash \div Mills))

\* C13: check_daily_loss_limit returns false with exactly one critical alert
\* exactly when the total value has fallen by at least max_daily_loss of the
\* broker's initial cash, and returns true with no alert otherwise.
C13_DailyLossAgainstInitialCash ==
  event.op = "check_daily_loss_limit" =>
    /\ event.ok = ~LossReached
    /\ Len(event.alerts) = IF LossReached THEN 1 ELSE 0
    /\ \A i \in DOMAIN event.alerts : event.alerts[i].severity = "critical"

TimeLt(a, b) == ~TimeLeq(b, a)
InLunchBreak(now) ==
  /\ TimeLeq(trading_scheduler.lunch_break_start, now)
  /\ TimeLeq(now, trading_scheduler.lunch_break_end)

\* C14: is_market_open is true only at times in [market_open, market_close)
\* outside the lunch break; it is false at market_close.
C14_OpenOnlyBeforeClose ==
  event.op = "is_market_open" /\ event.ok =>
    /\ TimeLeq(trading_scheduler.market_open, event.now.time)
    /\ TimeLt(event.now.time, trading_scheduler.market_close)
    /\ ~InLunchBreak(event.now.time)

\* C15: is_market_open is false at every time from lunch_break_start to
\* lunch_break_end, true one microsecond before lunch_break_start and true one
\* microsecond after lunch_break_end.
C15_ClosedDuringLunch ==
  event.op = "is_market_open" =>
    /\ InLunchBreak(event.now.time) => ~event.ok
    /\ event.now.time = <<11, 29, 59, 999999>> => event.ok
    /\ event.now.time = <<13, 0, 0, 1>> => event.ok

\* is_market_open was asked at lunch_break_start and answered no
C15_Witness ==
  /\ event.op = "is_market_open"
  /\ event.now.time = trading_scheduler.lunch_break_start
  /\ ~event.ok

\* C16: whatever the registered callbacks do, every callback registered
\* with the monitor or the risk manager and every alert callback of the
\* controller is invoked once for each alert raised, every trade callback
\* once for each trade event, and no exception leaves the dispatch or the
\* operation that raised the alerts.
C16_CallbackFailuresAreContained ==
  event.op \in {"_check_market_data", "_execute_buy_signal",
                "check_daily_loss_limit"} =>
    /\ ~event.delivery.raised
    /\ \A i \in DOMAIN event.delivery.outer :
         event.delivery.outer[i] = Len(event.alerts)
    /\ \A j \in DOMAIN event.delivery.inner :
         event.delivery.inner[j] = Len(event.alerts)
    /\ DOMAIN event.delivery.inner = DOMAIN trader.alert_callbacks
    /\ ~event.trade.raised
    /\ \A i \in DOMAIN event.trade.calls :
         event.trade.calls[i] = event.trade_events
    /\ event.op # "_execute_buy_signal" => event.raised = "none"

\* a poll cycle raised an alert while a raising callback was registered
\* ahead of another one
C16_Witness ==
  /\ event.op = "_check_market_data"
  /\ Len(event.alerts) > 0
  /\ trader.alert_callbacks = <<"raises", "ok">>
  /\ market_monitor.alert_callbacks
       = <<"_handle_price_alert", "raises", "ok">>

\* C17: a _trading_loop thread never ends because of an exception: from the
\* try block it goes to a sleep, after the sleep back to the while test, from
\* the while test into the next iteration while is_running holds, and it
\* ends only at a while test that finds is_running false.
C17_LoopSurvivesExceptions ==
  [][\A i \in DOMAIN threads.trading :
       LET pc == threads.trading[i].pc
           pc2 == threads'.trading[i].pc
       IN /\ pc2 # "crashed"
          /\ pc = "body" => pc2 \in {"body", "sleep", "except"}
          /\ pc = "body" /\ event'.op = "_trading_loop" /\ event'.thread = i
               /\ event'.iteration.raised # "none" => pc2 = "except"
          /\ pc = "except" => pc2 \in {"except", "test"}
          /\ pc = "test" /\ pc2 # "test" =>
               pc2 = IF trader.is_running THEN "body" ELSE "done"]_vars

\* a thread has begun an iteration after one that raised
C17_Witness ==
  /\ event.op = "_trading_loop"
  /\ event.pc = "test"
  /\ event.after_raise
  /\ threads.trading[event.thread].pc = "body"

\* C18: an iteration of _trading_loop that finds the market open runs the
\* trading-signal evaluation.
C18_OpenMarketRunsEvaluation ==
  event.op = "_trading_loop" /\ event.pc = "body" /\ event.iteration.open =>
    /\ event.iteration.evaluated
    /\ event.iteration.raised = "none"

Resumes(loops, loops2) ==
  \E i \in DOMAIN loops :
    loops[i].signalled /\ loops[i].pc = "test" /\ loops2[i].pc = "body"

\* C19: after stop() on a running controller is_running is false, the
\* monitor is not monitoring and the scheduler is not running, and no thread
\* that stop() signalled begins a further iteration.
C19_StopEndsTheLoops ==
  [][/\ event'.op = "stop" /\ event'.was_running =>
          /\ ~trader'.is_running
          /\ ~market_monitor'.is_monitoring
          /\ ~trading_scheduler'.is_running
     /\ ~Resumes(threads.trading, threads'.trading)
     /\ ~Resumes(threads.monitor, threads'.monitor)]_vars

ScheduledTasks ==
  {"market_analysis", "risk_check", "stop_loss_check", "daily_report"}

\* C20: after start() on a stopped controller the monitor is monitoring,
\* exactly the four tasks are registered, the scheduler is running and a
\* _trading_loop thread has been started; whenever is_running holds a
\* _trading_loop thread has been started; start() on a running controller
\* changes nothing.
C20_StartLaunchesEverything ==
  /\ event.op = "start" /\ ~event.was_running =>
       /\ market_monitor.is_monitoring
       /\ DOMAIN trading_scheduler.tasks = ScheduledTasks
       /\ trading_scheduler.is_running
       /\ trader.trading_thread = Len(threads.trading)
  /\ trader.is_running => trader.trading_thread \in DOMAIN threads.trading

\* C23: a PlaceOrder call with a quantity <= 0, a side other than buy and
\* sell, or a type other than market, limit, stop and stop_limit raises
\* ValueError and leaves the orders, the positions, the cash and the known
\* prices as they were.
C23_InvalidRequestIsRefused ==
  (last.op = "place_order" /\ ~ValidArgs(last)) =>
    /\ last.raised = "ValueError"
    /\ broker.orders = pre.orders
    /\ broker.positions = pre.positions
    /\ broker.cash = pre.cash
    /\ broker.price_data = pre.price_data

\* an order of an unknown type was refused on a ledger that knows prices
C23_Witness ==
  /\ last.op = "place_order"
  /\ last.order_type = "iceberg"
  /\ last.raised = "ValueError"
  /\ broker = pre
  /\ DOMAIN broker.price_data = Symbols

\* C24: a market order with valid arguments for a symbol that has no known
\* price returns its id without raising, the order is stored with status
\* rejected, and the cash and the positions are as before.
C24_NoPriceRejects ==
  (Placed(last) /\ last.order_type = "market"
   /\ last.symbol \notin DOMAIN pre.price_data) =>
    /\ Returned(last)
    /\ broker.orders[last.ret_id].status = "rejected"
    /\ broker.cash = pre.cash
    /\ broker.positions = pre.positions

RECURSIVE SumAtLatestPrice(_, _)
SumAtLatestPrice(b, keys) ==
  IF keys = {} THEN 0
  ELSE LET k == CHOOSE x \in keys : TRUE
       IN b.positions[k].quantity * b.price_data[k]
          + SumAtLatestPrice(b, keys \ {k})

\* C25: the total_value get_account_info returns is the cash plus the sum
\* over the positions of quantity * latest price, and every position it
\* leaves carries the market value and the unrealized P&L of that price.
C25_TotalValueAtLatestPrices ==
  LET a == get_account_info(broker)
  IN /\ a.info.total_value
          = broker.cash + SumAtLatestPrice(broker, DOMAIN broker.positions)
     /\ \A x \in DOMAIN a.b.positions :
          LET p == a.b.positions[x]
          IN /\ p.market_value = p.quantity * broker.price_data[x]
             /\ RatEq(p.unrealized_pnl,
                      RatMulInt(RatSub(RatInt(broker.price_data[x]),
                                       p.average_price), p.quantity))

\* the number of alerts of the given types raised for the symbol
CountAlerts(alerts, symbol, types) ==
  Cardinality({k \in DOMAIN alerts :
                 alerts[k].symbol = symbol /\ alerts[k].alert_type \in types})

\* the price differs from base by at least pct percent of base
ChangeAtLeast(price, base, pct) == Abs(price - base) * Percent >= pct * base

PollStep == event'.op = "_monitor_loop" /\ event'.pc = "body"

\* C26: in a poll cycle, for every watched symbol, exactly one price_change
\* alert is raised when the fetched price differs from the previous
\* snapshot's by at least price_change_threshold percent, and none when it
\* differs by less, when there is no previous snapshot or when nothing was
\* fetched; whether the gap alert and the volume_spike alert are raised
\* depends on the gap and on the volume alone, whatever the other detectors
\* did.
C26_PriceChangeAlertPerCrossing ==
  [][PollStep =>
       \A x \in DOMAIN event'.fetch :
         LET h == market_monitor.price_history[x]
             f == event'.fetch[x]
             data == f.kind = "data"
             crossing == /\ data /\ Len(h) > 0
                         /\ ChangeAtLeast(f.price, h[Len(h)].price,
                                          PriceChangeThreshold)
             gap == /\ data /\ Len(h) > 1
                    /\ ChangeAtLeast(f.price, h[Len(h) - 1].price,
                                     GapThreshold)
             spike == /\ data
                      /\ f.volume >= VolumeSpikeThreshold
                                       * market_monitor.volume_baseline[x]
         IN /\ CountAlerts(event'.alerts, x, {"price_change"})
                 = IF crossing THEN 1 ELSE 0
            /\ CountAlerts(event'.alerts, x, {"gap_up", "gap_down"})
                 = IF gap THEN 1 ELSE 0
            /\ CountAlerts(event'.alerts, x, {"volume_spike"})
                 = IF spike THEN 1 ELSE 0]_vars

\* a cycle in which a price exactly price_change_threshold percent above
\* the previous snapshot raised the price_change alert, together with a
\* volume_spike alert and without a gap alert
C26_Witness ==
  /\ event.op = "_monitor_loop" /\ event.pc = "body"
  /\ event.fetch["AAPL"] = Fetched("data", 103, 2 * DefaultVolumeBaseline)
  /\ Len(market_monitor.price_history["AAPL"]) = 2
  /\ market_monitor.price_history["AAPL"][1].price = 100
  /\ CountAlerts(event.alerts, "AAPL", {"price_change"}) = 1
  /\ CountAlerts(event.alerts, "AAPL", {"volume_spike"}) = 1
  /\ CountAlerts(event.alerts, "AAPL", {"gap_up", "gap_down"}) = 0

\* C27: in a poll cycle a symbol whose fetch fails or returns nothing keeps
\* its snapshot history as it was, every symbol for which data came gets
\* that snapshot appended whatever happened to the other symbols, and the
\* loop thread goes from the cycle to its sleep, from the sleep to the while
\* test and from there into the next cycle while is_monitoring holds.
C27_FetchFailureIsSkipped ==
  [][/\ PollStep =>
          /\ \A x \in DOMAIN event'.fetch :
               LET h == market_monitor.price_history[x]
                   h2 == market_monitor'.price_history[x]
                   f == event'.fetch[x]
               IN /\ f.kind # "data" => h2 = h
                  /\ f.kind = "data" =>
                       /\ Len(h2) = Len(h) + 1
                       /\ SubSeq(h2, 1, Len(h)) = h
                       /\ h2[Len(h2)].price = f.price
          /\ threads'.monitor[event'.thread].pc = "sleep"
     /\ \A i \in DOMAIN threads.monitor :
          LET pc == threads.monitor[i].pc
              pc2 == threads'.monitor[i].pc
          IN /\ pc = "body" => pc2 \in {"body", "sleep"}
             /\ pc = "sleep" => pc2 \in {"sleep", "test"}
             /\ pc = "test" /\ pc2 # "test" =>
                  pc2 = IF market_monitor.is_monitoring THEN "body"
                        ELSE "done"]_vars

\* a cycle in which the fetch for the first symbol raised while the second
\* symbol got its snapshot, and the thread went on to its sleep
C27_Witness ==
  /\ event.op = "_monitor_loop" /\ event.pc = "body"
  /\ event.fetch["AAPL"].kind = "error"
  /\ event.fetch["MSFT"].kind = "data"
  /\ Len(market_monitor.price_history["AAPL"]) = 1
  /\ Len(market_monitor.price_history["MSFT"]) = 2
  /\ threads.monitor[event.thread].pc = "sleep"

\* the market value of everything the broker b holds, at the latest prices
HoldingsValue(b) ==
  LET b1 == get_account_info(b).b
  IN SumMarketValue(b1.positions, DOMAIN b1.positions)

\* C28: validate_signal denies every buy for which the market value of the
\* holdings plus quantity * price of the order, divided by the account's
\* total value, exceeds max_portfolio_risk.
C28_ExposureCountsHoldings ==
  LET total == get_account_info(pre).info.total_value
  IN (Validated(last) /\ last.side = "BUY" /\ total > 0
      /\ (HoldingsValue(pre) + last.quantity * last.price) * Percent
           > config.max_portfolio_risk * total) =>
       /\ last.raised = "none"
       /\ ~last.ret_ok

\* the stop-loss or take-profit tables a caller may have set: a price for
\* none, one or both symbols
PriceTables ==
  UNION {[keys -> {p * Mills : p \in Prices}] : keys \in SUBSET Symbols}

\* C29: check_stop_loss_take_profit returns a stop-loss instruction for
\* exactly the positions whose stop-loss price is at or above the latest
\* price of their symbol, and a take-profit instruction for exactly those
\* whose take-profit price is at or below it.
C29_StopScanUsesLatestPrice ==
  \A sl \in PriceTables, tp \in PriceTables :
    LET r == check_stop_loss_take_profit(broker, sl, tp)
    IN \A x \in Symbols :
         /\ [side |-> "SELL", symbol |-> x, kind |-> "STOPLOSS"] \in r
              <=> /\ x \in DOMAIN broker.positions \cap DOMAIN sl
                  /\ sl[x] >= broker.price_data[x]
         /\ [side |-> "SELL", symbol |-> x, kind |-> "TAKEPROFIT"] \in r
              <=> /\ x \in DOMAIN broker.positions \cap DOMAIN tp
                  /\ tp[x] <= broker.price_data[x]

\* C30: the cash is never negative.
C30_CashNeverNegative == broker.cash >= 0

\* the threads of one loop that have not ended and that no stop() or
\* stop_monitoring() has signalled
Live(loops) ==
  {i \in DOMAIN loops :
     ~loops[i].signalled /\ loops[i].pc \notin {"done", "crashed"}}

\* C31: whatever the interleaving of start() and stop(), at most one
\* _trading_loop thread and at most one _monitor_loop thread is left
\* unsignalled, and a signalled thread never begins another iteration, so at
\* most one thread of each loop iterates.
C31_OneLoopOfEachKind ==
  [][/\ Cardinality(Live(threads'.trading)) <= 1
     /\ Cardinality(Live(threads'.monitor)) <= 1
     /\ ~Resumes(threads.trading, threads'.trading)
     /\ ~Resumes(threads.monitor, threads'.monitor)]_vars

\* the order o is pending on symbol, of one of the types in kinds
PendingOn(o, symbol, kinds) ==
  o.status = "pending" /\ o.symbol = symbol /\ o.order_type \in kinds

\* the trigger condition of the pending order o at the price p: a limit
\* order compares p with its limit price, the other types with their stop
\* price
TriggerHolds(o, p) ==
  IF o.order_type = "limit"
  THEN /\ o.price # NoPrice
       /\ IF o.side = "buy" THEN p <= o.price ELSE p >= o.price
  ELSE /\ o.stop_price # NoPrice
       /\ IF o.side = "buy" THEN p >= o.stop_price ELSE p <= o.stop_price

\* C32: when update_price(symbol, p) returns, every limit or stop order that
\* was pending on the symbol and whose trigger condition holds at p is filled
\* or rejected, and every other order is as it was.
C32_UpdatePriceSettlesTriggered ==
  (last.op = "update_price" /\ last.raised = "none") =>
    \A i \in DOMAIN pre.orders :
      IF /\ PendingOn(pre.orders[i], last.symbol, {"limit", "stop"})
         /\ TriggerHolds(pre.orders[i], last.price)
      THEN broker.orders[i].status \in {"filled", "rejected"}
      ELSE broker.orders[i] = pre.orders[i]

\* C33: a filled limit buy order is filled at or below its limit price and a
\* filled limit sell order at or above it.
C33_LimitFillRespectsLimit ==
  \A i \in DOMAIN broker.orders :
    LET o == broker.orders[i]
    IN (o.order_type = "limit" /\ o.status = "filled") =>
         IF o.side = "buy" THEN o.filled_price <= o.price
         ELSE o.filled_price >= o.price

\* C34: update_price never raises, whatever orders are pending, and the
\* price it was given is the latest price of the symbol when it returns.
C34_UpdatePriceNeverRaises ==
  last.op = "update_price" =>
    /\ last.raised = "none"
    /\ last.symbol \in DOMAIN broker.price_data
    /\ broker.price_data[last.symbol] = last.price

\* C36: a stop_limit order that was pending on the symbol is no longer
\* pending when update_price returns with a price that reaches its stop
\* price.
C36_StopLimitIsEvaluated ==
  (last.op = "update_price" /\ last.raised = "none") =>
    \A i \in DOMAIN pre.orders :
      (/\ PendingOn(pre.orders[i], last.symbol, {"stop_limit"})
       /\ TriggerHolds(pre.orders[i], last.price))
        => broker.orders[i].status # "pending"

\* C38: every position the broker holds has a quantity above zero.
C38_PositionsArePositive ==
  \A x \in DOMAIN broker.positions : broker.positions[x].quantity > 0

\* C35: _execute_buy_signal counts an order and delivers a trade event only
\* when the order it placed is filled; an order the broker rejected is not
\* counted and produces no trade event.
C35_TradeEventOnlyForFilledOrder ==
  event.op = "_execute_buy_signal" =>
    LET n == Len(broker.orders)
        stored == n > Len(pre.orders)
    IN /\ (event.trade_events > 0 \/ event.orders_count > 0)
            => stored /\ broker.orders[n].status = "filled"
       /\ (stored /\ broker.orders[n].status = "rejected")
            => /\ event.trade_events = 0
               /\ \A i \in DOMAIN event.trade.calls : event.trade.calls[i] = 0

\* C37: after any number of poll cycles the history of each watched symbol
\* holds HistoryCap snapshots at most, and they are the latest snapshots the
\* data source delivered for the symbol, oldest first.
C37_HistoryKeepsLatestHundred ==
  \A x \in DOMAIN market_monitor.price_history :
    LET h == market_monitor.price_history[x]
        delivered == event.snapshots[x]
    IN /\ Len(h) <= HistoryCap
       /\ Len(h) = IF delivered < HistoryCap THEN delivered ELSE HistoryCap
       /\ \A i \in DOMAIN h : h[i].price = delivered - Len(h) + i

\* the data source has delivered more than HistoryCap snapshots of a symbol
\* and a failed fetch followed
C37_Witness ==
  /\ event.op = "_check_market_data"
  /\ event.snapshots["AAPL"] > HistoryCap
  /\ event.fetch["AAPL"].kind = "error"
  /\ Len(market_monitor.price_history["AAPL"]) = HistoryCap

\* the number of filled orders of the broker b, all created today
FilledToday(b) ==
  Cardinality({i \in DOMAIN b.orders : b.orders[i].status = "filled"})

DailyLimitAlerts(alerts) ==
  {i \in DOMAIN alerts : alerts[i].alert_type = "daily_order_limit"}

\* C39: once the number of today's filled orders has reached
\* max_orders_per_day, validate_signal denies every signal and emits the
\* daily-order-limit alert; while the number is below the cap the
\* daily-order check does not deny and no such alert is emitted.
C39_DailyOrderCapDenies ==
  Validated(last) =>
    IF FilledToday(pre) >= config.max_orders_per_day
    THEN /\ last.raised = "none"
         /\ ~last.ret_ok
         /\ DailyLimitAlerts(last.alerts) # {}
    ELSE /\ CheckAlone(3, last).ok
         /\ DailyLimitAlerts(last.alerts) = {}

TaskOperations == {"pause_task", "resume_task", "remove_task"}

\* C40: pause_task, resume_task and remove_task raise nothing; applied to
\* the name the previous step applied the same operation to, each leaves
\* the registered tasks and their enabled flags as they are; applied to a
\* name that is not registered, each leaves the scheduler as it is.
C40_TaskOperationsAreIdempotent ==
  [][event'.op \in TaskOperations =>
       /\ event'.raised = "none"
       /\ (event.op = event'.op /\ event.task_name = event'.task_name)
            => trading_scheduler'.tasks = trading_scheduler.tasks
       /\ event'.task_name \notin DOMAIN trading_scheduler.tasks
            => trading_scheduler' = trading_scheduler]_vars

\* a registered task has been paused twice in a row, and it is paused
C40_Witness ==
  /\ event.op = "pause_task" /\ event.repeated
  /\ event.task_name \in DOMAIN trading_scheduler.tasks
  /\ event.task_name \in trading_scheduler.jobs
  /\ ~trading_scheduler.tasks[event.task_name].enabled

\* the tasks of the scheduler s that run a method of the controller self
TasksOf(s, self) ==
  {n \in DOMAIN s.tasks : s.tasks[n].function.self = self}

\* C22: start(), stop() and the registration of a task on one controller
\* leave every scheduled task of the other controller registered, running
\* the other controller's method, and leave its scheduler running.
C22_SchedulerIsExclusivelyOwned ==
  [][\A self \in Controllers :
       (event'.op \in {"start", "stop", "add_portfolio_check_task"}
        /\ event'.self \in Controllers \ {self}) =>
         \A n \in TasksOf(trading_scheduler, self) :
           /\ n \in TasksOf(trading_scheduler', self)
           /\ trading_scheduler.is_running => trading_scheduler'.is_running]_vars

(***************************************************************************)
(* The ledger in every state the calls can reach: place_order raises       *)
(* before it stores the order, so nothing is ever stored, held, debited or *)
(* credited.                                                               *)
(***************************************************************************)
LedgerNeverTrades ==
  /\ broker.orders = <<>>
  /\ broker.positions = <<>>
  /\ broker.cash = initial_cash
  /\ broker.total_value = initial_cash

====
